---- MODULE Spec2Model ----
(***************************************************************************)
(* buddy_schedule: the persistence port (MemRepo, PgRepo), the            *)
(* authorization checks and the HTTP handlers of src/src/lib.rs and       *)
(* src/src/repo.rs as a state machine.                                     *)
(*                                                                         *)
(* Identifiers (Uuid::new_v4) are drawn from finite pools.  A new id is an *)
(* id that occurs nowhere in the store, so an id a request named before   *)
(* the record existed is never handed out later.                          *)
(* Strings are tuples of one-character strings so that trim, lowercase,   *)
(* length and parsing are computed, not assumed.                          *)
(***************************************************************************)
EXTENDS Integers, Sequences, FiniteSets, TLC

\* ------------------------------------------------------------------ bounds
MaxUsers == 2
MaxSchedules == 2
MaxShifts == 1
MaxShiftIds == 4
MaxProcs == 2
MaxSlots == 2
MaxLiveClock == 1
MaxTemplates == 1
MaxComments == 1
MaxClock == 0

\* ------------------------------------------------------- program constants
MinPasswordLen == 8
MaxDow == 6
MinutesPerDay == 24 * 60

UserIds == 1..MaxUsers
ScheduleIds == 1..MaxSchedules
ShiftIds == 1..MaxShifts

\* the ids Uuid::new_v4 can give a shift
ShiftPool == 1..MaxShiftIds
TemplateIds == 1..MaxTemplates

\* Option::None, for Option<Uuid> and for "no value" fields of a response.
None == 0

\* models.rs: ScheduleRole and Period
Admin == "Admin"
User == "User"
ScheduleRole == {Admin, User}
Period == {"Morning", "Afternoon", "Night", "Sleep"}

\* error.rs: AppError kinds; "ok" is Ok(_)
AppError == {"Unauthorized", "Forbidden", "NotFound", "BadRequest", "Conflict", "Internal"}

VARIABLES
    users,      \* MemState.users / app_user: id -> [email, password_hash, is_superadmin]
    schedules,  \* MemState.schedules / schedule: id -> [name, created_by, created_at]
    members,    \* MemState.members / schedule_member: <<schedule_id, user_id>> -> role
    shifts,     \* MemState.shifts / shift: id -> Shift
    comments,   \* MemState.comments / shift_comment: shift_id -> Seq(ShiftComment)
    templates,  \* MemState.templates / rotation_template: id -> RotationTemplate
    clock,      \* Utc::now(), in ticks
    adapter,    \* which Repo implementation backs the port: "mem" or "pg"
    pg_call,    \* PgRepo::create_schedule's latest call: [id, created_by, at], at being
                \* "idle", "inserted" (between its two statements), or what it returned:
                \* "ok", "Internal"
    member_order, \* schedule_member.created_at of PgRepo: per schedule, the users of its
                \* rows, oldest first
    lock,       \* MemRepo.state's RwLock: the guard each task holds, "none", "read" or "write"
    pc          \* the call each task is in: [op, at, email, schedule_id, user_id, role, is_superadmin, caller]

vars ==
    <<users, schedules, members, shifts, comments, templates, clock, adapter, pg_call,
      member_order, lock, pc>>

\* the lock and the tasks: they move only where MemRepo's calls are taken step by step
tasks == <<lock, pc>>

\* the store as one value
St ==
    [users |-> users, schedules |-> schedules, members |-> members, shifts |-> shifts,
     comments |-> comments, templates |-> templates, clock |-> clock]

\* --------------------------------------------------------------- strings
IsSpace(c) == c = " "

RECURSIVE TrimStart(_)
TrimStart(s) ==
    IF s = <<>> THEN <<>>
    ELSE IF IsSpace(Head(s)) THEN TrimStart(Tail(s)) ELSE s

RECURSIVE TrimEnd(_)
TrimEnd(s) ==
    IF s = <<>> THEN <<>>
    ELSE IF IsSpace(s[Len(s)]) THEN TrimEnd(SubSeq(s, 1, Len(s) - 1)) ELSE s

\* str::trim
Trim(s) == TrimEnd(TrimStart(s))

LowerChar(c) ==
    CASE c = "A" -> "a"
      [] c = "B" -> "b"
      [] OTHER -> c

\* str::to_lowercase
ToLowercase(s) == [i \in 1..Len(s) |-> LowerChar(s[i])]

\* a string of n copies of c
Repeat(c, n) == [i \in 1..n |-> c]

\* ------------------------------------------------------------- functions
\* HashMap::insert: the map with key k bound to v (an existing binding is replaced)
Insert(m, k, v) == [x \in DOMAIN m \cup {k} |-> IF x = k THEN v ELSE m[x]]

Min(S) == CHOOSE x \in S : \A y \in S : x <= y

\* ids that occur anywhere in the store
UsedUserIds ==
    (DOMAIN users
        \cup {k[2] : k \in DOMAIN members}
        \cup {schedules[s].created_by : s \in DOMAIN schedules}
        \cup {shifts[s].created_by : s \in DOMAIN shifts}
        \cup {shifts[s].assigned_user_id : s \in DOMAIN shifts}
        \cup {templates[t].created_by : t \in DOMAIN templates}
        \cup UNION {{comments[s][i].user_id : i \in 1..Len(comments[s])} : s \in DOMAIN comments})
    \ {None}

UsedScheduleIds ==
    DOMAIN schedules
        \cup {k[1] : k \in DOMAIN members}
        \cup {shifts[s].schedule_id : s \in DOMAIN shifts}
        \cup {templates[t].schedule_id : t \in DOMAIN templates}

UsedShiftIds == DOMAIN shifts \cup DOMAIN comments

\* Uuid::new_v4(): an id of the pool that occurs nowhere yet (None: the pool is used up)
NewId(pool, used) == IF pool \ used = {} THEN None ELSE Min(pool \ used)

\* ---------------------------------------------------------------- auth.rs
\* hash_password: the salted hash of a password
hash_password(password, salt) == [salt |-> salt, digest |-> <<salt, password>>]

\* verify_password: the password hashes, under the stored salt, to the stored digest
verify_password(password, password_hash) ==
    password_hash.digest = <<password_hash.salt, password>>

\* issue_jwt: a signed, unexpired token carrying the user's id and flag
issue_jwt(user_id, is_superadmin) ==
    [sub |-> user_id, is_superadmin |-> is_superadmin, valid |-> TRUE]

\* what a failed login or registration carries instead of a token
NoToken == [sub |-> None, is_superadmin |-> FALSE, valid |-> FALSE]

\* decode_jwt: the claims of a token whose signature and expiry verify, else Unauthorized
decode_jwt(token) ==
    IF token.valid THEN [err |-> "ok", claims |-> token] ELSE [err |-> "Unauthorized", claims |-> token]

\* DateTime<Utc>, to the minute: [d, m], day d since 1970-01-01 and minute m of
\* that day (one number of minutes would not fit 32 bits for the dates chrono holds)
Before(a, b) == a.d < b.d \/ (a.d = b.d /\ a.m < b.m)
NotBefore(a, b) == ~Before(a, b)

\* all orders in which a HashMap can yield the elements of S
Perms(S) ==
    {f \in [1..Cardinality(S) -> S] : \A i, j \in 1..Cardinality(S) : f[i] = f[j] => i = j}

\* Option<ScheduleRole>::None
NoRole == "None"

\* ------------------------------------------------------- repo.rs: MemRepo
\* Every operation holds the RwLock for its whole body, so each is one step.
\* A write operation yields [err, <the new map>, ...]; the action that applies it
\* assigns the map.

Mem_count_users == Cardinality(DOMAIN users)

\* create_user without the email check (HashMap::insert under a fresh id)
Mem_create_user_nocheck(nu) ==
    LET id == NewId(UserIds, UsedUserIds) IN
    [err |-> "ok", id |-> id, users |-> IF id = None THEN users ELSE Insert(users, id, nu)]

Mem_create_user(nu) ==
    IF \E id \in DOMAIN users : users[id].email = nu.email
    THEN [err |-> "Conflict", id |-> None, users |-> users]
    ELSE LET id == NewId(UserIds, UsedUserIds) IN
         [err |-> "ok", id |-> id, users |-> IF id = None THEN users ELSE Insert(users, id, nu)]

\* the ids find() can stop at: the stored users with that email
Mem_find_user_by_email(email) == {id \in DOMAIN users : users[id].email = email}

Mem_get_user(user_id) == IF user_id \in DOMAIN users THEN {user_id} ELSE {}

\* create_schedule that records the creator as a plain member
Mem_create_schedule_userrole(ns, now) ==
    LET id == NewId(ScheduleIds, UsedScheduleIds) IN
    [err |-> "ok", id |-> id,
     schedules |-> IF id = None THEN schedules
                   ELSE Insert(schedules, id, [name |-> ns.name, created_by |-> ns.created_by, created_at |-> now]),
     members |-> IF id = None THEN members ELSE Insert(members, <<id, ns.created_by>>, User)]

Mem_create_schedule(ns, now) ==
    LET id == NewId(ScheduleIds, UsedScheduleIds) IN
    [err |-> "ok", id |-> id,
     schedules |-> IF id = None THEN schedules
                   ELSE Insert(schedules, id, [name |-> ns.name, created_by |-> ns.created_by, created_at |-> now]),
     members |-> IF id = None THEN members ELSE Insert(members, <<id, ns.created_by>>, Admin)]

\* the (schedule, role) entries of user_id whose schedule record exists
ScheduleEntries(user_id) ==
    {[schedule |-> k[1], role |-> members[k]] :
        k \in {m \in DOMAIN members : m[2] = user_id /\ m[1] \in DOMAIN schedules}}

\* list_schedules_for_user without the reverse: oldest schedule first
Mem_list_schedules_for_user_asc(user_id) ==
    {f \in Perms(ScheduleEntries(user_id)) :
        \A i, j \in DOMAIN f :
            i < j => schedules[f[i].schedule].created_at <= schedules[f[j].schedule].created_at}

\* sort_by_key(created_at) then reverse: every order of the entries that is
\* non-increasing in created_at (entries with equal created_at keep the map's order)
Mem_list_schedules_for_user(user_id) ==
    {f \in Perms(ScheduleEntries(user_id)) :
        \A i, j \in DOMAIN f :
            i < j => schedules[f[i].schedule].created_at >= schedules[f[j].schedule].created_at}

Mem_get_schedule(schedule_id) == IF schedule_id \in DOMAIN schedules THEN {schedule_id} ELSE {}

Mem_get_schedule_role(schedule_id, user_id) ==
    IF <<schedule_id, user_id>> \in DOMAIN members THEN members[<<schedule_id, user_id>>] ELSE NoRole

\* the (user, role) pairs of a schedule whose user record exists, in the map's order
Mem_list_schedule_members(schedule_id) ==
    Perms({[user |-> k[2], role |-> members[k]] :
        k \in {m \in DOMAIN members : m[1] = schedule_id /\ m[2] \in DOMAIN users}})

\* add_member without the contains_key check: HashMap::insert replaces the role
Mem_add_member_upsert(schedule_id, user_id, role) ==
    [err |-> "ok", members |-> Insert(members, <<schedule_id, user_id>>, role)]

Mem_add_member(schedule_id, user_id, role) ==
    IF <<schedule_id, user_id>> \in DOMAIN members
    THEN [err |-> "Conflict", members |-> members]
    ELSE [err |-> "ok", members |-> Insert(members, <<schedule_id, user_id>>, role)]

Mem_set_member_role(schedule_id, user_id, role) ==
    IF <<schedule_id, user_id>> \notin DOMAIN members
    THEN [err |-> "NotFound", members |-> members]
    ELSE [err |-> "ok", members |-> Insert(members, <<schedule_id, user_id>>, role)]

\* create_shift on the shift map sh (apply_template calls it once per slot)
Mem_create_shift_assigned(sh, ns) ==
    LET id == NewId(ShiftPool, DOMAIN sh \cup DOMAIN comments) IN
    [err |-> "ok", id |-> id,
     shifts |-> IF id = None THEN sh
                ELSE Insert(sh, id, [schedule_id |-> ns.schedule_id, starts_at |-> ns.starts_at,
                                     ends_at |-> ns.ends_at, period |-> ns.period,
                                     assigned_user_id |-> ns.created_by, created_by |-> ns.created_by])]

Mem_create_shift_dedup(sh, ns) ==
    LET same == {i \in DOMAIN sh : /\ sh[i].schedule_id = ns.schedule_id
                                   /\ sh[i].starts_at = ns.starts_at
                                   /\ sh[i].ends_at = ns.ends_at
                                   /\ sh[i].period = ns.period}
        id == NewId(ShiftPool, DOMAIN sh \cup DOMAIN comments)
    IN IF same # {} THEN [err |-> "ok", id |-> Min(same), shifts |-> sh]
       ELSE [err |-> "ok", id |-> id,
             shifts |-> IF id = None THEN sh
                        ELSE Insert(sh, id, [schedule_id |-> ns.schedule_id, starts_at |-> ns.starts_at,
                                             ends_at |-> ns.ends_at, period |-> ns.period,
                                             assigned_user_id |-> None, created_by |-> ns.created_by])]

Mem_create_shift(sh, ns) ==
    LET id == NewId(ShiftPool, DOMAIN sh \cup DOMAIN comments) IN
    [err |-> "ok", id |-> id,
     shifts |-> IF id = None THEN sh
                ELSE Insert(sh, id, [schedule_id |-> ns.schedule_id, starts_at |-> ns.starts_at,
                                     ends_at |-> ns.ends_at, period |-> ns.period,
                                     assigned_user_id |-> None, created_by |-> ns.created_by])]

\* list_shifts with x.starts_at <= to
Mem_list_shifts_inclusive(schedule_id, from, to) ==
    {f \in Perms({s \in DOMAIN shifts : /\ shifts[s].schedule_id = schedule_id
                                         /\ NotBefore(shifts[s].starts_at, from)
                                         /\ NotBefore(to, shifts[s].starts_at)}) :
        \A i, j \in DOMAIN f : i < j => NotBefore(shifts[f[j]].starts_at, shifts[f[i]].starts_at)}

\* filter, then sort_by_key(starts_at): every order of the selected shifts that is
\* non-decreasing in starts_at
Mem_list_shifts(schedule_id, from, to) ==
    {f \in Perms({s \in DOMAIN shifts : /\ shifts[s].schedule_id = schedule_id
                                         /\ NotBefore(shifts[s].starts_at, from)
                                         /\ Before(shifts[s].starts_at, to)}) :
        \A i, j \in DOMAIN f : i < j => NotBefore(shifts[f[j]].starts_at, shifts[f[i]].starts_at)}

Mem_get_shift(shift_id) == IF shift_id \in DOMAIN shifts THEN {shift_id} ELSE {}

\* assign_shift that gives every shift of the shift's schedule the assignee
Mem_assign_shift_schedule(shift_id, assigned_user_id) ==
    IF shift_id \notin DOMAIN shifts
    THEN [err |-> "NotFound", shifts |-> shifts]
    ELSE [err |-> "ok",
          shifts |-> [s \in DOMAIN shifts |->
                        IF shifts[s].schedule_id = shifts[shift_id].schedule_id
                        THEN [shifts[s] EXCEPT !.assigned_user_id = assigned_user_id]
                        ELSE shifts[s]]]

Mem_assign_shift(shift_id, assigned_user_id) ==
    IF shift_id \notin DOMAIN shifts
    THEN [err |-> "NotFound", shifts |-> shifts]
    ELSE [err |-> "ok", shifts |-> [shifts EXCEPT ![shift_id].assigned_user_id = assigned_user_id]]

Mem_list_shift_comments(shift_id) == IF shift_id \in DOMAIN comments THEN comments[shift_id] ELSE <<>>

\* comments.entry(shift_id).or_default().push(c)
Mem_add_shift_comment(nc) ==
    [err |-> "ok",
     comments |-> Insert(comments, nc.shift_id,
                         Append(Mem_list_shift_comments(nc.shift_id),
                                [user_id |-> nc.user_id, body |-> nc.body]))]

Mem_create_template(nt, now) ==
    LET id == NewId(TemplateIds, DOMAIN templates) IN
    [err |-> "ok", id |-> id,
     templates |-> IF id = None THEN templates
                   ELSE Insert(templates, id, [schedule_id |-> nt.schedule_id, name |-> nt.name,
                                               definition |-> nt.definition,
                                               created_by |-> nt.created_by, created_at |-> now])]

\* filter, sort_by_key(created_at), reverse
Mem_list_templates(schedule_id) ==
    {f \in Perms({t \in DOMAIN templates : templates[t].schedule_id = schedule_id}) :
        \A i, j \in DOMAIN f : i < j => templates[f[i]].created_at >= templates[f[j]].created_at}

Mem_get_template(template_id) == IF template_id \in DOMAIN templates THEN {template_id} ELSE {}

\* the number of stored comments
NumComments ==
    LET RECURSIVE Sum(_)
        Sum(S) == IF S = {} THEN 0
                  ELSE LET s == CHOOSE x \in S : TRUE IN Len(comments[s]) + Sum(S \ {s})
    IN Sum(DOMAIN comments)

\* -------------------------------------------------------- repo.rs: PgRepo
\* The tables are the same variables; schedule_member.role holds the text
\* ScheduleRole::as_str writes.  Every SQL statement is one step of the database.
\* fault: the statement fails for a reason that is not a constraint (the
\* connection is lost, the pool times out), which map_err turns into Internal.

\* ScheduleRole::as_str
ScheduleRole_as_str(role) == IF role = Admin THEN "admin" ELSE "user"

\* TryFrom<&str> for ScheduleRole (NoRole: Err)
ScheduleRole_try_from(value) ==
    CASE value = "admin" -> Admin
      [] value = "user" -> User
      [] OTHER -> NoRole

\* the unique constraint on app_user.email
app_user_email_key(email) == \E id \in DOMAIN users : users[id].email = email

\* the primary key of schedule_member
schedule_member_pkey(schedule_id, user_id) == <<schedule_id, user_id>> \in DOMAIN members

Pg_create_user(nu, fault) ==
    LET id == NewId(UserIds, UsedUserIds) IN
    IF fault THEN [err |-> "Internal", id |-> None, users |-> users]
    ELSE IF app_user_email_key(nu.email) THEN [err |-> "Conflict", id |-> None, users |-> users]
    ELSE [err |-> "ok", id |-> id, users |-> IF id = None THEN users ELSE Insert(users, id, nu)]

\* create_schedule, first statement: insert into schedule
Pg_create_schedule_insert(ns, now, fault) ==
    LET id == NewId(ScheduleIds, UsedScheduleIds) IN
    IF fault THEN [err |-> "Internal", id |-> None, schedules |-> schedules]
    ELSE [err |-> "ok", id |-> id,
          schedules |-> IF id = None THEN schedules
                        ELSE Insert(schedules, id, [name |-> ns.name, created_by |-> ns.created_by,
                                                    created_at |-> now])]

\* create_schedule, second statement: insert into schedule_member
Pg_create_schedule_member(id, created_by, fault) ==
    IF fault \/ schedule_member_pkey(id, created_by) THEN [err |-> "Internal", members |-> members]
    ELSE [err |-> "ok", members |-> Insert(members, <<id, created_by>>, "admin")]

\* the join of schedule and schedule_member for user_id, ordered by created_at desc
\* (rows with equal created_at in any order): [err, out]
Pg_list_schedules_for_user(user_id, fault) ==
    LET rows == {m \in DOMAIN members : m[2] = user_id /\ m[1] \in DOMAIN schedules}
        entries == {[schedule |-> k[1], role |-> ScheduleRole_try_from(members[k])] : k \in rows}
    IN IF fault \/ \E k \in rows : ScheduleRole_try_from(members[k]) = NoRole
       THEN {[err |-> "Internal", out |-> <<>>]}
       ELSE {[err |-> "ok", out |-> f] :
                f \in {g \in Perms(entries) :
                         \A i, j \in DOMAIN g :
                            i < j => schedules[g[i].schedule].created_at
                                        >= schedules[g[j].schedule].created_at}}

\* schedule_member joined with app_user for schedule_id, ordered by sm.created_at, each
\* role parsed: [err, out].  The inserts leave created_at to the column's default, the
\* time of the insert, so the rows come in the order member_order keeps for the schedule.
Pg_list_schedule_members(schedule_id, fault) ==
    LET Joined(u) == u \in DOMAIN users
        rows == SelectSeq(member_order[schedule_id], Joined)
    IN IF fault \/ \E i \in DOMAIN rows :
                      ScheduleRole_try_from(members[<<schedule_id, rows[i]>>]) = NoRole
       THEN [err |-> "Internal", out |-> <<>>]
       ELSE [err |-> "ok",
             out |-> [i \in DOMAIN rows |->
                        [user |-> rows[i],
                         role |-> ScheduleRole_try_from(members[<<schedule_id, rows[i]>>])]]]

Pg_add_member(schedule_id, user_id, role, fault) ==
    IF fault THEN [err |-> "Internal", members |-> members]
    ELSE IF schedule_member_pkey(schedule_id, user_id) THEN [err |-> "Conflict", members |-> members]
    ELSE [err |-> "ok", members |-> Insert(members, <<schedule_id, user_id>>, ScheduleRole_as_str(role))]

Pg_set_member_role(schedule_id, user_id, role, fault) ==
    IF fault THEN [err |-> "Internal", members |-> members]
    ELSE IF <<schedule_id, user_id>> \notin DOMAIN members THEN [err |-> "NotFound", members |-> members]
    ELSE [err |-> "ok", members |-> Insert(members, <<schedule_id, user_id>>, ScheduleRole_as_str(role))]

\* update shift set assigned_user_id = $2 where id = $1; rows_affected() == 0 is NotFound
Pg_assign_shift(shift_id, assigned_user_id, fault) ==
    IF fault THEN [err |-> "Internal", shifts |-> shifts]
    ELSE IF shift_id \notin DOMAIN shifts THEN [err |-> "NotFound", shifts |-> shifts]
    ELSE [err |-> "ok", shifts |-> [shifts EXCEPT ![shift_id].assigned_user_id = assigned_user_id]]

\* Period::as_str
Period_as_str(period) ==
    CASE period = "Morning" -> "morning"
      [] period = "Afternoon" -> "afternoon"
      [] period = "Night" -> "night"
      [] period = "Sleep" -> "sleep"

\* a try_from that ignores the case of the first letter
Period_try_from_any_case(value) ==
    CASE value \in {"morning", "Morning"} -> "Morning"
      [] value \in {"afternoon", "Afternoon"} -> "Afternoon"
      [] value \in {"night", "Night"} -> "Night"
      [] value \in {"sleep", "Sleep"} -> "Sleep"
      [] OTHER -> "None"

\* TryFrom<&str> for Period (NoPeriod: Err)
NoPeriod == "None"
Period_try_from(value) ==
    CASE value = "morning" -> "Morning"
      [] value = "afternoon" -> "Afternoon"
      [] value = "night" -> "Night"
      [] value = "sleep" -> "Sleep"
      [] OTHER -> NoPeriod

\* select ... from shift where id = $1, fetch_optional: [err, out], out the row if there
\* is one, its period parsed with unwrap_or(Period::Morning)
Pg_get_shift(shift_id, fault) ==
    IF fault THEN [err |-> "Internal", out |-> <<>>]
    ELSE IF shift_id \notin DOMAIN shifts THEN [err |-> "ok", out |-> <<>>]
    ELSE [err |-> "ok",
          out |-> <<[shifts[shift_id] EXCEPT
                       !.period = IF Period_try_from(@) = NoPeriod THEN "Morning"
                                  ELSE Period_try_from(@)]>>]

\* insert into shift ... returning: the row keeps the period as text, and the call
\* fails with Internal when the statement does or the returned text is no Period
Pg_create_shift(sh, ns, fault) ==
    LET id == NewId(ShiftPool, DOMAIN sh \cup DOMAIN comments)
        row == [schedule_id |-> ns.schedule_id, starts_at |-> ns.starts_at, ends_at |-> ns.ends_at,
                period |-> Period_as_str(ns.period), assigned_user_id |-> None,
                created_by |-> ns.created_by]
    IN IF fault THEN [err |-> "Internal", id |-> None, shifts |-> sh]
       ELSE IF id = None THEN [err |-> "ok", id |-> None, shifts |-> sh]
       ELSE [err |-> IF Period_try_from(row.period) = NoPeriod THEN "Internal" ELSE "ok",
             id |-> id, shifts |-> Insert(sh, id, row)]

\* select ... where schedule_id = $1 and starts_at >= $2 and starts_at < $3 order by
\* starts_at asc (rows with equal starts_at in any order), each period parsed: [err, out]
Pg_list_shifts(schedule_id, from, to, fault) ==
    LET rows == {s \in DOMAIN shifts : /\ shifts[s].schedule_id = schedule_id
                                       /\ NotBefore(shifts[s].starts_at, from)
                                       /\ Before(shifts[s].starts_at, to)}
    IN IF fault \/ \E s \in rows : Period_try_from(shifts[s].period) = NoPeriod
       THEN {[err |-> "Internal", out |-> <<>>]}
       ELSE {[err |-> "ok",
              out |-> [i \in DOMAIN f |->
                         [id |-> f[i],
                          shift |-> [shifts[f[i]] EXCEPT !.period = Period_try_from(@)]]]] :
                f \in {g \in Perms(rows) :
                         \A i, j \in DOMAIN g :
                            i < j => NotBefore(shifts[g[j]].starts_at, shifts[g[i]].starts_at)}}

\* ------------------------------------------------- chrono: dates and times
Digits == <<"0", "1", "2", "3", "4", "5", "6", "7", "8", "9">>
IsDigit(c) == \E i \in 1..10 : Digits[i] = c
DigitVal(c) == (CHOOSE i \in 1..10 : Digits[i] = c) - 1

\* a number of one or two digits at the front of s: [ok, val, rest]
ScanNumber2(s) ==
    IF s = <<>> \/ ~IsDigit(s[1]) THEN [ok |-> FALSE, val |-> 0, rest |-> s]
    ELSE IF Len(s) >= 2 /\ IsDigit(s[2])
         THEN [ok |-> TRUE, val |-> 10 * DigitVal(s[1]) + DigitVal(s[2]), rest |-> SubSeq(s, 3, Len(s))]
         ELSE [ok |-> TRUE, val |-> DigitVal(s[1]), rest |-> Tail(s)]

\* NaiveTime::parse_from_str(s, "%H:%M"): [ok, minutes since midnight]
ParseTime(s) ==
    LET h == ScanNumber2(s) IN
    IF ~h.ok \/ h.rest = <<>> \/ h.rest[1] # ":" THEN [ok |-> FALSE, t |-> 0]
    ELSE LET m == ScanNumber2(Tail(h.rest)) IN
         IF ~m.ok \/ m.rest # <<>> \/ h.val > 23 \/ m.val > 59 THEN [ok |-> FALSE, t |-> 0]
         ELSE [ok |-> TRUE, t |-> 60 * h.val + m.val]

IsLeap(y) == (y % 4 = 0 /\ y % 100 # 0) \/ y % 400 = 0

DaysInMonth(y, m) ==
    CASE m \in {1, 3, 5, 7, 8, 10, 12} -> 31
      [] m \in {4, 6, 9, 11} -> 30
      [] OTHER -> IF IsLeap(y) THEN 29 ELSE 28

\* days from 1970-01-01 to the civil date y-m-d (proleptic Gregorian, y >= 0)
DaysFromCivil(y, m, d) ==
    LET yy == IF m <= 2 THEN y - 1 ELSE y
        era == yy \div 400
        yoe == yy - era * 400
        mp == (m + 9) % 12
        doy == (153 * mp + 2) \div 5 + d - 1
        doe == yoe * 365 + yoe \div 4 - yoe \div 100 + doy
    IN era * 146097 + doe - 719468

\* NaiveDate::MAX, the last date chrono represents
NaiveDateMax == DaysFromCivil(262142, 12, 31)

\* NaiveDate::parse_from_str(s, "%Y-%m-%d") on a date written [sign y, m, d] as text:
\* a date string is modelled by its three numeric fields, each as written
ParseDate(s) ==
    IF ~s.wellformed \/ s.m < 1 \/ s.m > 12 \/ s.d < 1 THEN [ok |-> FALSE, day |-> 0]
    ELSE IF s.d > DaysInMonth(s.y, s.m) THEN [ok |-> FALSE, day |-> 0]
    ELSE IF DaysFromCivil(s.y, s.m, s.d) > NaiveDateMax THEN [ok |-> FALSE, day |-> 0]
    ELSE [ok |-> TRUE, day |-> DaysFromCivil(s.y, s.m, s.d)]

\* NaiveDate::checked_add_signed(Duration::days(n)), n >= 0
CheckedAddDays(day, n) ==
    IF day + n > NaiveDateMax THEN [ok |-> FALSE, day |-> 0] ELSE [ok |-> TRUE, day |-> day + n]

\* NaiveDate::and_time, read as UTC
AndTime(day, t) == [d |-> day, m |-> t]

\* an instant plus n minutes, n >= 0
AddMinutes(a, n) == [d |-> a.d + (a.m + n) \div MinutesPerDay, m |-> (a.m + n) % MinutesPerDay]

\* NaiveDateTime::MAX, to the minute
NaiveDateTimeMax == AndTime(NaiveDateMax, MinutesPerDay - 1)

\* ------------------------------------------------------ lib.rs: handlers
\* AppState.repo is a MemRepo here, as in api_tests::router.  A handler is a
\* function of the store and the request: it yields the set of its possible
\* outcomes [err, out, st] -- the AppError kind or "ok", the response body, the
\* store it leaves.  The set has several elements where the code's result depends
\* on a HashMap's iteration order, and is empty where the model's id pool is used up.
Out(err, out, st) == [err |-> err, out |-> out, st |-> st]

\* Err(kind): the request changed nothing
Fail(err) == Out(err, None, St)

NoAuthUser == [err |-> "Unauthorized", id |-> None, is_superadmin |-> FALSE]

\* from_headers that takes the flag from the token's claims
from_headers_trusting(h) ==
    IF ~h.bearer THEN NoAuthUser
    ELSE LET c == decode_jwt(h.token) IN
         IF c.err # "ok" THEN NoAuthUser
         ELSE IF Mem_get_user(c.claims.sub) = {} THEN NoAuthUser
         ELSE [err |-> "ok", id |-> c.claims.sub, is_superadmin |-> c.claims.is_superadmin]

\* AuthUser::from_headers
from_headers(h) ==
    IF ~h.bearer THEN NoAuthUser
    ELSE LET c == decode_jwt(h.token) IN
         IF c.err # "ok" THEN NoAuthUser
         ELSE IF Mem_get_user(c.claims.sub) = {} THEN NoAuthUser
         ELSE [err |-> "ok", id |-> c.claims.sub, is_superadmin |-> users[c.claims.sub].is_superadmin]

\* require_member_or_superadmin without the superadmin shortcut
require_member_only(au, schedule_id) ==
    LET role == Mem_get_schedule_role(schedule_id, au.id) IN
    IF role = NoRole THEN [err |-> "Forbidden", role |-> NoRole, lookups |-> 1]
    ELSE [err |-> "ok", role |-> role, lookups |-> 1]

\* require_member_or_superadmin that lets every caller in as a plain member
require_member_open(au, schedule_id) ==
    IF au.is_superadmin THEN [err |-> "ok", role |-> Admin, lookups |-> 0]
    ELSE LET role == Mem_get_schedule_role(schedule_id, au.id) IN
         [err |-> "ok", role |-> IF role = NoRole THEN User ELSE role, lookups |-> 1]

\* [err, role, lookups]: lookups counts the get_schedule_role calls made
require_member_or_superadmin(au, schedule_id) ==
    IF au.is_superadmin THEN [err |-> "ok", role |-> Admin, lookups |-> 0]
    ELSE LET role == Mem_get_schedule_role(schedule_id, au.id) IN
         IF role = NoRole THEN [err |-> "Forbidden", role |-> NoRole, lookups |-> 1]
         ELSE [err |-> "ok", role |-> role, lookups |-> 1]

\* require_admin_or_superadmin that accepts any member
require_admin_anyrole(au, schedule_id) ==
    IF au.is_superadmin THEN "ok"
    ELSE IF Mem_get_schedule_role(schedule_id, au.id) = NoRole THEN "Forbidden" ELSE "ok"

require_admin_or_superadmin(au, schedule_id) ==
    IF au.is_superadmin THEN "ok"
    ELSE LET role == Mem_get_schedule_role(schedule_id, au.id) IN
         IF role = NoRole THEN "Forbidden"
         ELSE IF role # Admin THEN "Forbidden" ELSE "ok"

\* register's rule with an off-by-one count
register_is_superadmin_upto1 == Mem_count_users <= 1

\* the email register stores when it trims but keeps the case
register_email_trim(e) == Trim(e)

\* register: req.email.trim().to_lowercase()
register_email(e) == ToLowercase(Trim(e))

\* register: is_superadmin = (count_users() == 0)
register_is_superadmin == Mem_count_users = 0

register(req, salt) ==
    LET email == register_email(req.email) IN
    IF email = <<>> \/ Len(req.password) < MinPasswordLen THEN {Out("BadRequest", NoToken, St)}
    ELSE LET is_superadmin == register_is_superadmin
             r == Mem_create_user([email |-> email,
                                   password_hash |-> hash_password(req.password, salt),
                                   is_superadmin |-> is_superadmin])
         IN IF r.err # "ok" THEN {Fail(r.err)}
            ELSE IF r.id = None THEN {}
            ELSE {Out("ok", issue_jwt(r.id, r.users[r.id].is_superadmin), [St EXCEPT !.users = r.users])}

\* login that looks the email up as typed
login_raw_email(req) ==
    LET found == Mem_find_user_by_email(req.email) IN
    IF found = {} THEN {Out("Unauthorized", NoToken, St)}
    ELSE {IF ~verify_password(req.password, users[id].password_hash)
          THEN Out("Unauthorized", NoToken, St)
          ELSE Out("ok", issue_jwt(id, users[id].is_superadmin), St) : id \in found}

login(req) ==
    LET found == Mem_find_user_by_email(ToLowercase(Trim(req.email))) IN
    IF found = {} THEN {Out("Unauthorized", NoToken, St)}
    ELSE {IF ~verify_password(req.password, users[id].password_hash)
          THEN Out("Unauthorized", NoToken, St)
          ELSE Out("ok", issue_jwt(id, users[id].is_superadmin), St) : id \in found}

me(h) ==
    LET au == from_headers(h) IN
    IF au.err # "ok" THEN {Fail(au.err)}
    ELSE IF Mem_get_user(au.id) = {} THEN {Fail("Unauthorized")}
    ELSE {Out("ok", au.id, St)}

list_schedules(h) ==
    LET au == from_headers(h) IN
    IF au.err # "ok" THEN {Fail(au.err)}
    ELSE {Out("ok", out, St) : out \in Mem_list_schedules_for_user(au.id)}

create_schedule(h, req, now) ==
    LET au == from_headers(h) IN
    IF au.err # "ok" THEN {Fail(au.err)}
    ELSE IF Trim(req.name) = <<>> THEN {Fail("BadRequest")}
    ELSE LET r == Mem_create_schedule([name |-> Trim(req.name), created_by |-> au.id], now) IN
         IF r.id = None THEN {}
         ELSE {Out("ok", r.id, [St EXCEPT !.schedules = r.schedules, !.members = r.members,
                                          !.clock = now])}

list_members(h, schedule_id) ==
    LET au == from_headers(h) IN
    IF au.err # "ok" THEN {Fail(au.err)}
    ELSE IF require_member_or_superadmin(au, schedule_id).err # "ok" THEN {Fail("Forbidden")}
    ELSE {Out("ok", out, St) : out \in Mem_list_schedule_members(schedule_id)}

add_member(h, schedule_id, req) ==
    LET au == from_headers(h)
        found == Mem_find_user_by_email(ToLowercase(Trim(req.email)))
    IN IF au.err # "ok" THEN {Fail(au.err)}
       ELSE IF require_admin_or_superadmin(au, schedule_id) # "ok" THEN {Fail("Forbidden")}
       ELSE IF found = {} THEN {Fail("BadRequest")}
       ELSE {LET r == Mem_add_member(schedule_id, id, req.role) IN
             Out(r.err, None, [St EXCEPT !.members = r.members]) : id \in found}

\* set_member_role that makes a user given the Admin role a superadmin
set_member_role_promoting(h, schedule_id, user_id, req) ==
    LET au == from_headers(h) IN
    IF au.err # "ok" THEN {Fail(au.err)}
    ELSE IF require_admin_or_superadmin(au, schedule_id) # "ok" THEN {Fail("Forbidden")}
    ELSE LET r == Mem_set_member_role(schedule_id, user_id, req.role) IN
         {Out(r.err, None,
              [St EXCEPT !.members = r.members,
                         !.users = IF r.err = "ok" /\ req.role = Admin /\ user_id \in DOMAIN users
                                   THEN [users EXCEPT ![user_id].is_superadmin = TRUE]
                                   ELSE users])}

set_member_role(h, schedule_id, user_id, req) ==
    LET au == from_headers(h) IN
    IF au.err # "ok" THEN {Fail(au.err)}
    ELSE IF require_admin_or_superadmin(au, schedule_id) # "ok" THEN {Fail("Forbidden")}
    ELSE LET r == Mem_set_member_role(schedule_id, user_id, req.role) IN
         {Out(r.err, None, [St EXCEPT !.members = r.members])}

create_shift(h, schedule_id, req) ==
    LET au == from_headers(h) IN
    IF au.err # "ok" THEN {Fail(au.err)}
    ELSE IF require_admin_or_superadmin(au, schedule_id) # "ok" THEN {Fail("Forbidden")}
    ELSE LET r == Mem_create_shift(shifts, [schedule_id |-> schedule_id, starts_at |-> req.starts_at,
                                            ends_at |-> req.ends_at, period |-> req.period,
                                            created_by |-> au.id])
         IN IF r.id = None THEN {} ELSE {Out("ok", r.id, [St EXCEPT !.shifts = r.shifts])}

\* DateTime::parse_from_rfc3339(..).with_timezone(&Utc) on a query value: a value is
\* modelled by whether it is RFC 3339 and the instant it then names
ParseRfc3339(q) == [ok |-> q.wellformed, t |-> q.t]

list_shifts(h, schedule_id, q) ==
    LET au == from_headers(h) IN
    IF au.err # "ok" THEN {Fail(au.err)}
    ELSE IF require_member_or_superadmin(au, schedule_id).err # "ok" THEN {Fail("Forbidden")}
    ELSE IF ~ParseRfc3339(q.from).ok \/ ~ParseRfc3339(q.to).ok THEN {Fail("BadRequest")}
    ELSE {Out("ok", out, St) :
            out \in Mem_list_shifts(schedule_id, ParseRfc3339(q.from).t, ParseRfc3339(q.to).t)}

\* assign_shift's check left out altogether
assign_forbidden_never(au, role, target) == FALSE

\* assign_shift: "Only admins can assign other users."
assign_forbidden(au, role, target) ==
    target # au.id /\ ~(au.is_superadmin \/ role = Admin)

\* assign_shift that turns away a caller with no membership at all before it
\* looks the shift up
assign_shift_auth_first(h, shift_id, req) ==
    LET au == from_headers(h) IN
    IF au.err # "ok" THEN {Fail(au.err)}
    ELSE IF ~au.is_superadmin /\ ~\E k \in DOMAIN members : k[2] = au.id THEN {Fail("Forbidden")}
    ELSE IF Mem_get_shift(shift_id) = {} THEN {Fail("NotFound")}
    ELSE LET shift == shifts[shift_id]
             m == require_member_or_superadmin(au, shift.schedule_id)
             target == IF req.assigned_user_id = None THEN au.id ELSE req.assigned_user_id
         IN IF m.err # "ok" THEN {Fail(m.err)}
            ELSE IF assign_forbidden(au, m.role, target) THEN {Fail("Forbidden")}
            ELSE LET r == Mem_assign_shift(shift_id, target) IN
                 {Out(r.err, None, [St EXCEPT !.shifts = r.shifts])}

\* assign_shift that stores the requested assignee as sent, None included
assign_shift_as_sent(h, shift_id, req) ==
    LET au == from_headers(h) IN
    IF au.err # "ok" THEN {Fail(au.err)}
    ELSE IF Mem_get_shift(shift_id) = {} THEN {Fail("NotFound")}
    ELSE LET shift == shifts[shift_id]
             m == require_member_or_superadmin(au, shift.schedule_id)
             target == IF req.assigned_user_id = None THEN au.id ELSE req.assigned_user_id
         IN IF m.err # "ok" THEN {Fail(m.err)}
            ELSE IF assign_forbidden(au, m.role, target) THEN {Fail("Forbidden")}
            ELSE LET r == Mem_assign_shift(shift_id, req.assigned_user_id) IN
                 {Out(r.err, None, [St EXCEPT !.shifts = r.shifts])}

assign_shift(h, shift_id, req) ==
    LET au == from_headers(h) IN
    IF au.err # "ok" THEN {Fail(au.err)}
    ELSE IF Mem_get_shift(shift_id) = {} THEN {Fail("NotFound")}
    ELSE LET shift == shifts[shift_id]
             m == require_member_or_superadmin(au, shift.schedule_id)
             target == IF req.assigned_user_id = None THEN au.id ELSE req.assigned_user_id
         IN IF m.err # "ok" THEN {Fail(m.err)}
            ELSE IF assign_forbidden(au, m.role, target) THEN {Fail("Forbidden")}
            ELSE LET r == Mem_assign_shift(shift_id, target) IN
                 {Out(r.err, None, [St EXCEPT !.shifts = r.shifts])}

\* add_shift_comment's check left out altogether
comment_forbidden_never(au, role, shift) == FALSE

\* add_shift_comment: "Only assigned user or admins can comment."
comment_forbidden(au, role, shift) ==
    ~au.is_superadmin /\ role # Admin /\ shift.assigned_user_id # au.id

\* add_shift_comment that stores the body as sent
add_shift_comment_untrimmed(h, shift_id, req) ==
    LET au == from_headers(h) IN
    IF au.err # "ok" THEN {Fail(au.err)}
    ELSE IF Mem_get_shift(shift_id) = {} THEN {Fail("NotFound")}
    ELSE LET shift == shifts[shift_id]
             m == require_member_or_superadmin(au, shift.schedule_id)
         IN IF m.err # "ok" THEN {Fail(m.err)}
            ELSE IF comment_forbidden(au, m.role, shift) THEN {Fail("Forbidden")}
            ELSE IF Trim(req.body) = <<>> THEN {Fail("BadRequest")}
            ELSE IF NumComments >= MaxComments THEN {}
            ELSE LET r == Mem_add_shift_comment([shift_id |-> shift_id, user_id |-> au.id,
                                                 body |-> req.body])
                 IN {Out(r.err, None, [St EXCEPT !.comments = r.comments])}

\* add_shift_comment that accepts a caller with the Admin role on any schedule
add_shift_comment_unscoped(h, shift_id, req) ==
    LET au == from_headers(h) IN
    IF au.err # "ok" THEN {Fail(au.err)}
    ELSE IF Mem_get_shift(shift_id) = {} THEN {Fail("NotFound")}
    ELSE IF ~au.is_superadmin /\ ~\E k \in DOMAIN members : k[2] = au.id /\ members[k] = Admin
         THEN {Fail("Forbidden")}
    ELSE IF Trim(req.body) = <<>> THEN {Fail("BadRequest")}
    ELSE IF NumComments >= MaxComments THEN {}
    ELSE LET r == Mem_add_shift_comment([shift_id |-> shift_id, user_id |-> au.id,
                                         body |-> Trim(req.body)])
         IN {Out(r.err, None, [St EXCEPT !.comments = r.comments])}

add_shift_comment(h, shift_id, req) ==
    LET au == from_headers(h) IN
    IF au.err # "ok" THEN {Fail(au.err)}
    ELSE IF Mem_get_shift(shift_id) = {} THEN {Fail("NotFound")}
    ELSE LET shift == shifts[shift_id]
             m == require_member_or_superadmin(au, shift.schedule_id)
         IN IF m.err # "ok" THEN {Fail(m.err)}
            ELSE IF comment_forbidden(au, m.role, shift) THEN {Fail("Forbidden")}
            ELSE IF Trim(req.body) = <<>> THEN {Fail("BadRequest")}
            ELSE IF NumComments >= MaxComments THEN {}
            ELSE LET r == Mem_add_shift_comment([shift_id |-> shift_id, user_id |-> au.id,
                                                 body |-> Trim(req.body)])
                 IN {Out(r.err, None, [St EXCEPT !.comments = r.comments])}

create_template(h, schedule_id, req, now) ==
    LET au == from_headers(h) IN
    IF au.err # "ok" THEN {Fail(au.err)}
    ELSE IF require_admin_or_superadmin(au, schedule_id) # "ok" THEN {Fail("Forbidden")}
    ELSE IF Trim(req.name) = <<>> THEN {Fail("BadRequest")}
    ELSE LET r == Mem_create_template([schedule_id |-> schedule_id, name |-> Trim(req.name),
                                       definition |-> req.definition, created_by |-> au.id], now)
         IN IF r.id = None THEN {}
            ELSE {Out("ok", r.id, [St EXCEPT !.templates = r.templates, !.clock = now])}

list_templates(h, schedule_id) ==
    LET au == from_headers(h) IN
    IF au.err # "ok" THEN {Fail(au.err)}
    ELSE IF require_member_or_superadmin(au, schedule_id).err # "ok" THEN {Fail("Forbidden")}
    ELSE {Out("ok", out, St) : out \in Mem_list_templates(schedule_id)}

\* (0..=6).contains(&slot.dow)
DowInRange_upto7(dow) == 0 <= dow /\ dow <= MaxDow + 1
DowInRange(dow) == 0 <= dow /\ dow <= MaxDow

\* if end_naive <= start_naive { end_naive += Duration::days(1) }
OvernightEnd_strict(start_naive, end0) ==
    IF Before(end0, start_naive) THEN AddMinutes(end0, MinutesPerDay) ELSE end0
OvernightEnd(start_naive, end0) ==
    IF NotBefore(start_naive, end0) THEN AddMinutes(end0, MinutesPerDay) ELSE end0

\* apply_template's loop over the slots, on the shift map sh: [err, shifts, created, full].
\* A slot that fails validation ends the loop with BadRequest; the shifts inserted for
\* the slots before it stay.  "Panic": end_naive += Duration::days(1) overflows
\* NaiveDateTime and the handler's task panics, so the request gets no response.
\* full: the id pool ran out before the loop ended.
RECURSIVE ApplySlots(_, _, _, _, _, _)
ApplySlots(slots, sh, created, schedule_id, week_start, created_by) ==
    IF slots = <<>> THEN [err |-> "ok", shifts |-> sh, created |-> created, full |-> FALSE]
    ELSE LET slot == Head(slots)
             start_t == ParseTime(slot.start)
             end_t == ParseTime(slot.end)
             day == CheckedAddDays(week_start, slot.dow)
         IN IF ~DowInRange(slot.dow) \/ ~start_t.ok \/ ~end_t.ok \/ ~day.ok
            THEN [err |-> "BadRequest", shifts |-> sh, created |-> created, full |-> FALSE]
            ELSE LET start_naive == AndTime(day.day, start_t.t)
                     end0 == AndTime(day.day, end_t.t)
                     end_naive == OvernightEnd(start_naive, end0)
                     r == Mem_create_shift(sh, [schedule_id |-> schedule_id, starts_at |-> start_naive,
                                                ends_at |-> end_naive, period |-> slot.period,
                                                created_by |-> created_by])
                 IN IF Before(NaiveDateTimeMax, end_naive)
                    THEN [err |-> "Panic", shifts |-> sh, created |-> created, full |-> FALSE]
                    ELSE IF r.id = None
                    THEN [err |-> "ok", shifts |-> sh, created |-> created, full |-> TRUE]
                    ELSE ApplySlots(Tail(slots), r.shifts, Append(created, r.id),
                                    schedule_id, week_start, created_by)

\* apply_template without the comparison of the template's schedule with the path's
apply_template_any_schedule(h, schedule_id, template_id, req) ==
    LET au == from_headers(h) IN
    IF au.err # "ok" THEN {Fail(au.err)}
    ELSE IF require_admin_or_superadmin(au, schedule_id) # "ok" THEN {Fail("Forbidden")}
    ELSE IF Mem_get_template(template_id) = {} THEN {Fail("NotFound")}
    ELSE IF ~ParseDate(req.week_start).ok THEN {Fail("BadRequest")}
    ELSE IF ~templates[template_id].definition.shape_ok THEN {Fail("BadRequest")}
    ELSE LET r == ApplySlots(templates[template_id].definition.slots, shifts, <<>>,
                             schedule_id, ParseDate(req.week_start).day, au.id)
         IN IF r.full THEN {}
            ELSE {Out(r.err, IF r.err = "ok" THEN r.created ELSE <<>>,
                      [St EXCEPT !.shifts = r.shifts])}

apply_template(h, schedule_id, template_id, req) ==
    LET au == from_headers(h) IN
    IF au.err # "ok" THEN {Fail(au.err)}
    ELSE IF require_admin_or_superadmin(au, schedule_id) # "ok" THEN {Fail("Forbidden")}
    ELSE IF Mem_get_template(template_id) = {} THEN {Fail("NotFound")}
    ELSE IF templates[template_id].schedule_id # schedule_id THEN {Fail("Forbidden")}
    ELSE IF ~ParseDate(req.week_start).ok THEN {Fail("BadRequest")}
    ELSE IF ~templates[template_id].definition.shape_ok THEN {Fail("BadRequest")}
    ELSE LET r == ApplySlots(templates[template_id].definition.slots, shifts, <<>>,
                             schedule_id, ParseDate(req.week_start).day, au.id)
         IN IF r.full THEN {}
            ELSE {Out(r.err, IF r.err = "ok" THEN r.created ELSE <<>>,
                      [St EXCEPT !.shifts = r.shifts])}

\* ---------------------------------------------------------------- requests
NoHeader == [bearer |-> FALSE, token |-> NoToken]

\* Authorization headers: none, a token that does not verify, and tokens signed
\* with the server's secret (for ids the store may not hold, with either flag)
Headers ==
    {NoHeader, [bearer |-> TRUE, token |-> [sub |-> 1, is_superadmin |-> TRUE, valid |-> FALSE]]}
        \cup {[bearer |-> TRUE, token |-> issue_jwt(u, b)] : u \in UserIds, b \in BOOLEAN}

RegisterEmails == {<<" ">>, <<"a">>, <<"A", " ">>, <<"b">>}
MemberEmails == {<<"a">>, <<" ", "B">>, <<"c">>}
Passwords == {Repeat("p", MinPasswordLen), Repeat("p", MinPasswordLen - 1)}
WrongPasswords == {Repeat("p", MinPasswordLen), Repeat("q", MinPasswordLen)}
Salts == {"s1"}
Names == {<<"n">>, <<" ">>}
Bodies == {<<"hi", " ">>, <<" ">>}

Jan1 == [wellformed |-> TRUE, y |-> 2024, m |-> 1, d |-> 1]
NoDate == [wellformed |-> FALSE, y |-> 0, m |-> 0, d |-> 0]
WeekStarts == {Jan1, NoDate}

\* 2024-01-01T00:00Z
T0 == AndTime(DaysFromCivil(2024, 1, 1), 0)
Rfc3339(t) == [wellformed |-> TRUE, t |-> t]
NoInstant == [wellformed |-> FALSE, t |-> AndTime(0, 0)]

NightShift == [starts_at |-> AddMinutes(T0, 60 * 22), ends_at |-> AddMinutes(T0, 60 * 30), period |-> "Night"]

ShiftRequests ==
    {NightShift,
     [starts_at |-> AddMinutes(T0, 60 * 8), ends_at |-> AddMinutes(T0, 60 * 7), period |-> "Morning"]}

ShiftQueries ==
    {[from |-> Rfc3339(T0), to |-> Rfc3339(AddMinutes(T0, MinutesPerDay))],
     [from |-> Rfc3339(AddMinutes(T0, 60 * 22)), to |-> Rfc3339(AddMinutes(T0, 60 * 22))],
     [from |-> NoInstant, to |-> Rfc3339(T0)]}

NightSlot == [dow |-> 0, start |-> <<"2", "2", ":", "0", "0">>, end |-> <<"6", ":", "0", "0">>,
              period |-> "Night"]
BadDowSlot == [dow |-> MaxDow + 1, start |-> <<"8", ":", "0", "0">>, end |-> <<"9", ":", "0", "0">>,
               period |-> "Morning"]

\* {dow: 5, period: night, start: "22:00", end: "06:00"}
SatNightSlot == [dow |-> 5, start |-> <<"2", "2", ":", "0", "0">>, end |-> <<"0", "6", ":", "0", "0">>,
                 period |-> "Night"]
DaySlot == [dow |-> 2, start |-> <<"0", "8", ":", "0", "0">>, end |-> <<"1", "6", ":", "0", "0">>,
            period |-> "Morning"]
FullDaySlot == [dow |-> MaxDow, start |-> <<"0", "9", ":", "0", "0">>, end |-> <<"0", "9", ":", "0", "0">>,
                period |-> "Sleep"]
NegDowSlot == [DaySlot EXCEPT !.dow = -1]
BadStartSlot == [DaySlot EXCEPT !.start = <<"2", "4", ":", "0", "0">>]
BadEndSlot == [DaySlot EXCEPT !.end = <<"1", "6", "0", "0">>]

TemplateSlots ==
    {NightSlot, SatNightSlot, DaySlot, FullDaySlot, BadDowSlot, NegDowSlot, BadStartSlot, BadEndSlot}

\* template definitions: shape_ok is whether the JSON deserializes as TemplateDefinition
NightDefinition == [shape_ok |-> TRUE, slots |-> <<NightSlot>>]

Definitions ==
    {NightDefinition,
     [shape_ok |-> TRUE, slots |-> <<NightSlot, BadDowSlot>>],
     [shape_ok |-> FALSE, slots |-> <<>>]}

\* the definitions templates are created with under SpecTemplate
TemplateDefinitions ==
    {[shape_ok |-> TRUE, slots |-> sl] :
        sl \in {<<SatNightSlot, DaySlot>>, <<NightSlot, FullDaySlot>>,
                <<DaySlot, BadDowSlot, NightSlot>>, <<FullDaySlot, BadDowSlot>>,
                <<BadDowSlot, DaySlot>>, <<NegDowSlot>>, <<BadStartSlot>>, <<BadEndSlot>>}}
        \cup {[shape_ok |-> FALSE, slots |-> <<>>]}

\* week_start values: a Monday, a Wednesday, the two dates six and five days before
\* NaiveDate::MAX, a date past it, and text that is no date
Jan3 == [wellformed |-> TRUE, y |-> 2024, m |-> 1, d |-> 3]
MaxMinus6 == [wellformed |-> TRUE, y |-> 262142, m |-> 12, d |-> 25]
MaxMinus5 == [wellformed |-> TRUE, y |-> 262142, m |-> 12, d |-> 26]
PastMax == [wellformed |-> TRUE, y |-> 262143, m |-> 1, d |-> 1]
TemplateWeekStarts == {Jan1, Jan3, MaxMinus6, MaxMinus5, PastMax, NoDate}

\* the headers clients hold: none, or the token register/login issued to a stored user
IssuedHeaders ==
    {NoHeader} \cup {[bearer |-> TRUE, token |-> issue_jwt(u, users[u].is_superadmin)] : u \in DOMAIN users}

\* Utc::now() does not go back
Nows == {t \in {clock, clock + 1} : t <= MaxClock}

\* ------------------------------------------------------- the API over MemRepo
InitStore ==
    /\ users = <<>>
    /\ schedules = <<>>
    /\ members = <<>>
    /\ shifts = <<>>
    /\ comments = <<>>
    /\ templates = <<>>
    /\ clock = 0

NoCall == [id |-> None, created_by |-> None, at |-> "idle"]

\* nobody holds the lock and no task is in a call
Procs == 1..MaxProcs
Idle == [op |-> "idle", at |-> "idle", email |-> <<>>, schedule_id |-> None, user_id |-> None,
         role |-> NoRole, is_superadmin |-> FALSE, caller |-> None, slots |-> 0]
InitTasks ==
    /\ lock = [p \in Procs |-> "none"]
    /\ pc = [p \in Procs |-> Idle]

Init == InitStore /\ adapter = "mem" /\ pg_call = NoCall /\ member_order = [s \in ScheduleIds |-> <<>>] /\ InitTasks

\* one request: the store becomes the one an outcome of the handler leaves
Do(outcomes) ==
    /\ \E o \in outcomes :
        /\ users' = o.st.users
        /\ schedules' = o.st.schedules
        /\ members' = o.st.members
        /\ shifts' = o.st.shifts
        /\ comments' = o.st.comments
        /\ templates' = o.st.templates
        /\ clock' = o.st.clock
    /\ UNCHANGED <<adapter, pg_call, member_order, tasks>>

\* these specifications stop creating shifts at MaxShifts
RoomForShift == Cardinality(DOMAIN shifts) < MaxShifts

Accounts ==
    \/ \E e \in RegisterEmails, pw \in Passwords, salt \in Salts :
          Do(register([email |-> e, password |-> pw], salt))
    \/ \E e \in RegisterEmails, pw \in WrongPasswords : Do(login([email |-> e, password |-> pw]))
    \/ \E h \in IssuedHeaders : Do(me(h))

Schedules ==
    \/ \E h \in IssuedHeaders : Do(list_schedules(h))
    \/ \E h \in IssuedHeaders, n \in Names, now \in Nows : Do(create_schedule(h, [name |-> n], now))

Members ==
    \/ \E h \in IssuedHeaders, s \in ScheduleIds : Do(list_members(h, s))
    \/ \E h \in IssuedHeaders, s \in ScheduleIds, e \in MemberEmails, role \in ScheduleRole :
          Do(add_member(h, s, [email |-> e, role |-> role]))
    \/ \E h \in IssuedHeaders, s \in ScheduleIds, u \in UserIds, role \in ScheduleRole :
          Do(set_member_role(h, s, u, [role |-> role]))

Shifts ==
    \/ \E h \in IssuedHeaders, s \in ScheduleIds, req \in {NightShift} :
          RoomForShift /\ Do(create_shift(h, s, req))
    \/ \E h \in IssuedHeaders, s \in ScheduleIds, q \in ShiftQueries : Do(list_shifts(h, s, q))

Assignments ==
    \/ \E h \in IssuedHeaders, sh \in ShiftIds, u \in UserIds \cup {None} :
          Do(assign_shift(h, sh, [assigned_user_id |-> u]))
    \/ \E h \in IssuedHeaders, sh \in ShiftIds, b \in Bodies : Do(add_shift_comment(h, sh, [body |-> b]))

Templates ==
    \/ \E h \in IssuedHeaders, s \in ScheduleIds, n \in Names, d \in {NightDefinition}, now \in Nows :
          Do(create_template(h, s, [name |-> n, definition |-> d], now))
    \/ \E h \in IssuedHeaders, s \in ScheduleIds : Do(list_templates(h, s))
    \/ \E h \in IssuedHeaders, s \in ScheduleIds, t \in TemplateIds, w \in WeekStarts :
          RoomForShift /\ Do(apply_template(h, s, t, [week_start |-> w]))

\* accounts, schedules, memberships and the schedule-scoped reads and writes
Next == Accounts \/ Schedules \/ Members \/ Shifts \/ Templates

Spec == Init /\ [][Next]_vars

TemplateSetup ==
    \/ \E e \in {<<"a">>, <<"b">>}, salt \in Salts :
          Do(register([email |-> e, password |-> Repeat("p", MinPasswordLen)], salt))
    \/ \E h \in IssuedHeaders, now \in Nows :
          schedules = <<>> /\ Do(create_schedule(h, [name |-> <<"n">>], now))

TemplateWrites ==
    \/ \E h \in IssuedHeaders, s \in ScheduleIds, d \in TemplateDefinitions, now \in Nows :
          Do(create_template(h, s, [name |-> <<"n">>, definition |-> d], now))
    \/ \E h \in IssuedHeaders, s \in ScheduleIds, t \in TemplateIds,
          w \in {Jan1, Jan3, MaxMinus6, NoDate} :
          Do(apply_template(h, s, t, [week_start |-> w]))

\* two accounts, one schedule and the template handlers, with MaxShiftIds shift ids
NextTemplate == TemplateSetup \/ TemplateWrites

SpecTemplate == Init /\ [][NextTemplate]_vars

\* accounts, schedules, memberships and the shift handlers
NextShift == Accounts \/ Schedules \/ Members \/ Shifts \/ Assignments

SpecShift == Init /\ [][NextShift]_vars

\* ------------------------------------------------------------ properties
\* the stored user a header authenticates (None: no one)
Caller(h) ==
    IF h.bearer /\ h.token.valid /\ h.token.sub \in DOMAIN users THEN h.token.sub ELSE None

IsSuperadmin(u) == users[u].is_superadmin
HasRole(s, u, role) == <<s, u>> \in DOMAIN members /\ members[<<s, u>>] = role
IsMember(s, u) == <<s, u>> \in DOMAIN members

RegisterRequests == {[email |-> e, password |-> pw] : e \in RegisterEmails, pw \in Passwords}

\* C2: a successful registration stores one new user whose is_superadmin is TRUE
\* exactly when the store was empty, and touches no other user; a failed one
\* (BadRequest, Conflict) leaves the store as it was, so the next successful one
\* still meets the same count; hence a non-empty store holds exactly one
\* superadmin, the first registered user.
C2_FirstRegistrationSuperadmin ==
    /\ \A req \in RegisterRequests, salt \in Salts :
          \A o \in register(req, salt) :
             IF o.err = "ok"
             THEN /\ Cardinality(DOMAIN o.st.users \ DOMAIN users) = 1
                  /\ \A u \in DOMAIN users : o.st.users[u] = users[u]
                  /\ \A u \in DOMAIN o.st.users \ DOMAIN users :
                        o.st.users[u].is_superadmin = (DOMAIN users = {})
             ELSE o.err \in {"BadRequest", "Conflict"} /\ o.st = St
    /\ Cardinality({u \in DOMAIN users : IsSuperadmin(u)}) = IF DOMAIN users = {} THEN 0 ELSE 1

\* C2 witness: two registrations succeeded; one user is superadmin, the other is
\* not, and a registration repeating a stored email would fail
C2_Witness ==
    /\ \E u, v \in DOMAIN users : IsSuperadmin(u) /\ ~IsSuperadmin(v)
    /\ \E req \in RegisterRequests, salt \in Salts :
          \E o \in register(req, salt) : o.err = "Conflict"

\* the outcomes of a schedule-scoped write by caller u on schedule s: success only
\* for a superadmin or an Admin of s; for anyone else Forbidden and the store unchanged
OnlyAdmin(outcomes, u, s) ==
    \A o \in outcomes :
       /\ o.err = "ok" => IsSuperadmin(u) \/ HasRole(s, u, Admin)
       /\ ~(IsSuperadmin(u) \/ HasRole(s, u, Admin)) => o.err = "Forbidden" /\ o.st = St

\* C5: create_shift, add_member, set_member_role, create_template and
\* apply_template succeed only for a caller who is superadmin or Admin of the
\* schedule in the path; for every other authenticated caller they return
\* Forbidden and leave users, schedules, members, shifts, comments and templates
\* unchanged.
C5_WritesRequireAdmin ==
    \A h \in Headers, s \in ScheduleIds :
       Caller(h) # None =>
          /\ \A req \in ShiftRequests : OnlyAdmin(create_shift(h, s, req), Caller(h), s)
          /\ \A e \in MemberEmails, role \in ScheduleRole :
                OnlyAdmin(add_member(h, s, [email |-> e, role |-> role]), Caller(h), s)
          /\ \A u \in UserIds, role \in ScheduleRole :
                OnlyAdmin(set_member_role(h, s, u, [role |-> role]), Caller(h), s)
          /\ \A n \in Names, d \in Definitions, now \in Nows :
                OnlyAdmin(create_template(h, s, [name |-> n, definition |-> d], now), Caller(h), s)
          /\ \A t \in TemplateIds, w \in WeekStarts :
                OnlyAdmin(apply_template(h, s, t, [week_start |-> w]), Caller(h), s)

\* C5 witness: a schedule holds a shift and a template (writes went through) and
\* has a member with role User, not superadmin, who is Admin of another schedule
\* and whose create_shift on this one is Forbidden
C5_Witness ==
    \E s \in DOMAIN schedules, u \in DOMAIN users :
       /\ HasRole(s, u, User) /\ ~IsSuperadmin(u)
       /\ \E s2 \in DOMAIN schedules : HasRole(s2, u, Admin)
       /\ \E sh \in DOMAIN shifts : shifts[sh].schedule_id = s
       /\ \E t \in DOMAIN templates : templates[t].schedule_id = s
       /\ \E h \in IssuedHeaders :
             Caller(h) = u /\ \A o \in create_shift(h, s, NightShift) : o.err = "Forbidden"

\* the outcomes of a schedule-scoped read by caller u on schedule s
OnlyMember(outcomes, u, s) ==
    \A o \in outcomes :
       /\ o.err = "ok" => IsSuperadmin(u) \/ IsMember(s, u)
       /\ ~(IsSuperadmin(u) \/ IsMember(s, u)) => o.err = "Forbidden" /\ o.out = None

\* C6: list_shifts, list_members and list_templates return data only to a caller
\* who is superadmin or has a membership row on the schedule; a non-superadmin
\* without a row gets Forbidden and no data.
C6_ReadsRequireMember ==
    \A h \in Headers, s \in ScheduleIds :
       Caller(h) # None =>
          /\ \A q \in ShiftQueries : OnlyMember(list_shifts(h, s, q), Caller(h), s)
          /\ OnlyMember(list_members(h, s), Caller(h), s)
          /\ OnlyMember(list_templates(h, s), Caller(h), s)

\* C6 witness: a non-superadmin lists the shifts and templates of a schedule on
\* which they have role User, and gets Forbidden from list_members on another
\* stored schedule, on which they have no row
C6_Witness ==
    \E s, s2 \in DOMAIN schedules, h \in IssuedHeaders :
       /\ Caller(h) # None /\ ~IsSuperadmin(Caller(h))
       /\ HasRole(s, Caller(h), User)
       /\ \E o \in list_shifts(h, s, [from |-> Rfc3339(T0), to |-> Rfc3339(AddMinutes(T0, MinutesPerDay))]) :
             o.err = "ok" /\ o.out # <<>>
       /\ \E o \in list_templates(h, s) : o.err = "ok" /\ o.out # <<>>
       /\ ~IsMember(s2, Caller(h))
       /\ \A o \in list_members(h, s2) : o.err = "Forbidden" /\ o.out = None

AuthUsers == {[err |-> "ok", id |-> u, is_superadmin |-> b] : u \in UserIds, b \in BOOLEAN}

\* C7: require_member_or_superadmin yields Admin for a superadmin whatever the
\* membership table holds, without a get_schedule_role call; for anyone else it
\* yields the stored role of (schedule, caller), and Forbidden exactly when there
\* is no such row.
C7_RequireMember ==
    \A au \in AuthUsers, s \in ScheduleIds :
       LET r == require_member_or_superadmin(au, s) IN
       IF au.is_superadmin
       THEN r.err = "ok" /\ r.role = Admin /\ r.lookups = 0
       ELSE /\ r.err = "Forbidden" <=> ~IsMember(s, au.id)
            /\ r.err \in {"ok", "Forbidden"}
            /\ r.err = "ok" => r.role = members[<<s, au.id>>]

\* C7 witness: the superadmin's stored role on a schedule is User, on another
\* schedule the superadmin has no row, and a non-superadmin has a stored role
C7_Witness ==
    \E u, v \in DOMAIN users, s, s2 \in DOMAIN schedules :
       /\ IsSuperadmin(u) /\ HasRole(s, u, User) /\ ~IsMember(s2, u)
       /\ ~IsSuperadmin(v) /\ IsMember(s2, v)

AssignRequests == {[assigned_user_id |-> u] : u \in UserIds \cup {None}}

\* the user an assign_shift request by u names (no id: u)
Target(u, req) == IF req.assigned_user_id = None THEN u ELSE req.assigned_user_id

\* C3: on a shift of schedule s, a non-superadmin member with role User who names
\* another user gets Forbidden and the shift keeps its assignee; naming themselves
\* (or no one) they succeed and become the assignee; a request naming another user
\* succeeds only for a superadmin or an Admin of s; a non-superadmin without a
\* membership in s gets Forbidden.
C3_AssignShiftAuthorization ==
    \A h \in Headers, sh \in DOMAIN shifts, req \in AssignRequests :
       Caller(h) # None =>
          LET u == Caller(h)
              s == shifts[sh].schedule_id
              t == Target(u, req)
          IN /\ assign_shift(h, sh, req) # {}
             /\ \A o \in assign_shift(h, sh, req) :
                   /\ HasRole(s, u, User) /\ ~IsSuperadmin(u) /\ t # u =>
                         o.err = "Forbidden" /\ o.st = St
                   /\ HasRole(s, u, User) /\ ~IsSuperadmin(u) /\ t = u =>
                         o.err = "ok" /\ o.st.shifts[sh].assigned_user_id = u
                   /\ o.err = "ok" /\ t # u => IsSuperadmin(u) \/ HasRole(s, u, Admin)
                   /\ ~IsSuperadmin(u) /\ ~IsMember(s, u) => o.err = "Forbidden" /\ o.st = St

\* C3 witness: a shift is assigned to a non-superadmin member with role User, and
\* that member's request to assign it to another user is Forbidden
C3_Witness ==
    \E sh \in DOMAIN shifts, h \in IssuedHeaders, v \in UserIds :
       /\ Caller(h) # None /\ ~IsSuperadmin(Caller(h))
       /\ HasRole(shifts[sh].schedule_id, Caller(h), User)
       /\ shifts[sh].assigned_user_id = Caller(h)
       /\ v # Caller(h)
       /\ \A o \in assign_shift(h, sh, [assigned_user_id |-> v]) : o.err = "Forbidden"

\* C4: add_shift_comment stores a comment only for a caller who is superadmin, or
\* Admin of the shift's schedule, or a member of it and the shift's assignee; a
\* User-role member who is not the assignee and a non-superadmin non-member get
\* Forbidden, and then (as for an unauthenticated request) nothing is stored.
C4_CommentAuthorization ==
    \A h \in Headers, sh \in DOMAIN shifts, b \in Bodies :
       LET u == Caller(h)
           s == shifts[sh].schedule_id
       IN \A o \in add_shift_comment(h, sh, [body |-> b]) :
             IF u = None THEN o.st = St
             ELSE /\ o.st.comments # comments =>
                        \/ IsSuperadmin(u)
                        \/ HasRole(s, u, Admin)
                        \/ IsMember(s, u) /\ shifts[sh].assigned_user_id = u
                  /\ HasRole(s, u, User) /\ ~IsSuperadmin(u) /\ shifts[sh].assigned_user_id # u =>
                        o.err = "Forbidden" /\ o.st = St
                  /\ ~IsSuperadmin(u) /\ ~IsMember(s, u) => o.err = "Forbidden" /\ o.st = St

\* C4 witness: a non-superadmin member with role User commented on a shift while
\* its assignee; the shift has since gone to someone else, and the same member's
\* comment is now Forbidden
C4_Witness ==
    \E sh \in DOMAIN shifts, h \in IssuedHeaders :
       /\ Caller(h) # None /\ ~IsSuperadmin(Caller(h))
       /\ HasRole(shifts[sh].schedule_id, Caller(h), User)
       /\ \E i \in DOMAIN Mem_list_shift_comments(sh) :
             Mem_list_shift_comments(sh)[i].user_id = Caller(h)
       /\ shifts[sh].assigned_user_id # Caller(h)
       /\ \A o \in add_shift_comment(h, sh, [body |-> <<"hi", " ">>]) : o.err = "Forbidden"

\* ------------------------------------------------ the port, on either adapter
\* Arc<dyn Repo>: the operations of trait Repo, called with any arguments, on
\* MemRepo or on PgRepo.  Calls run concurrently: a MemRepo operation is one step
\* (it holds the lock), PgRepo::create_schedule is two.
NewUsers ==
    {[email |-> e, password_hash |-> hash_password(c.pw, "s1"), is_superadmin |-> c.su] :
        e \in {<<"a">>, <<"b">>},
        c \in {[pw |-> Repeat("p", MinPasswordLen), su |-> TRUE],
               [pw |-> Repeat("q", MinPasswordLen), su |-> FALSE]}}

NewSchedules == {[name |-> <<"n">>, created_by |-> u] : u \in UserIds}

\* the stored form of a role under the adapter
StoredRole(role) == IF adapter = "mem" THEN role ELSE ScheduleRole_as_str(role)

Repo_create_user(nu, fault) ==
    IF adapter = "mem" THEN Mem_create_user(nu) ELSE Pg_create_user(nu, fault)

Repo_add_member(schedule_id, user_id, role, fault) ==
    IF adapter = "mem" THEN Mem_add_member(schedule_id, user_id, role)
    ELSE Pg_add_member(schedule_id, user_id, role, fault)

Repo_set_member_role(schedule_id, user_id, role, fault) ==
    IF adapter = "mem" THEN Mem_set_member_role(schedule_id, user_id, role)
    ELSE Pg_set_member_role(schedule_id, user_id, role, fault)

\* what list_schedules_for_user can return: [err, out]
Repo_list_schedules_for_user(user_id, fault) ==
    IF adapter = "mem" THEN {[err |-> "ok", out |-> f] : f \in Mem_list_schedules_for_user(user_id)}
    ELSE Pg_list_schedules_for_user(user_id, fault)

\* what list_schedule_members can return: [err, out]
Repo_list_schedule_members(schedule_id, fault) ==
    IF adapter = "mem" THEN {[err |-> "ok", out |-> f] : f \in Mem_list_schedule_members(schedule_id)}
    ELSE {Pg_list_schedule_members(schedule_id, fault)}

\* a schedule id no caller knows yet: PgRepo::create_schedule has not returned it
InFlight(schedule_id) == pg_call.at = "inserted" /\ pg_call.id = schedule_id

repo_create_user(nu, fault) ==
    LET r == Repo_create_user(nu, fault) IN
    /\ r.err = "ok" => r.id # None
    /\ users' = r.users
    /\ UNCHANGED <<schedules, members, shifts, comments, templates, clock, adapter, pg_call, member_order, tasks>>

mem_create_schedule(ns, now) ==
    LET r == Mem_create_schedule(ns, now) IN
    /\ adapter = "mem"
    /\ r.id # None
    /\ schedules' = r.schedules
    /\ members' = r.members
    /\ clock' = now
    /\ UNCHANGED <<users, shifts, comments, templates, adapter, pg_call, member_order, tasks>>

pg_create_schedule_insert(ns, now, fault) ==
    LET r == Pg_create_schedule_insert(ns, now, fault) IN
    /\ adapter = "pg"
    /\ pg_call.at # "inserted"
    /\ r.err = "ok" => r.id # None
    /\ schedules' = r.schedules
    /\ clock' = now
    /\ pg_call' = [id |-> r.id, created_by |-> ns.created_by,
                   at |-> IF r.err = "ok" THEN "inserted" ELSE r.err]
    /\ UNCHANGED <<users, members, shifts, comments, templates, adapter, member_order, tasks>>

pg_create_schedule_member(fault) ==
    LET r == Pg_create_schedule_member(pg_call.id, pg_call.created_by, fault) IN
    /\ adapter = "pg"
    /\ pg_call.at = "inserted"
    /\ members' = r.members
    /\ member_order' = IF r.err = "ok"
                       THEN [member_order EXCEPT ![pg_call.id] = Append(@, pg_call.created_by)]
                       ELSE member_order
    /\ pg_call' = [pg_call EXCEPT !.at = r.err]
    /\ UNCHANGED <<users, schedules, shifts, comments, templates, clock, adapter, tasks>>

repo_add_member(schedule_id, user_id, role, fault) ==
    /\ ~InFlight(schedule_id)
    /\ members' = Repo_add_member(schedule_id, user_id, role, fault).members
    /\ member_order' = IF adapter = "pg" /\ Repo_add_member(schedule_id, user_id, role, fault).err = "ok"
                       THEN [member_order EXCEPT ![schedule_id] = Append(@, user_id)]
                       ELSE member_order
    /\ UNCHANGED <<users, schedules, shifts, comments, templates, clock, adapter, pg_call, tasks>>

repo_set_member_role(schedule_id, user_id, role, fault) ==
    /\ ~InFlight(schedule_id)
    /\ members' = Repo_set_member_role(schedule_id, user_id, role, fault).members
    /\ UNCHANGED <<users, schedules, shifts, comments, templates, clock, adapter, pg_call, member_order, tasks>>

\* create_shift and list_shifts of the port
NewShifts ==
    {[schedule_id |-> s, starts_at |-> AddMinutes(T0, 60 * hh), ends_at |-> AddMinutes(T0, 60 * (hh + 8)),
      period |-> IF hh = 8 THEN "Morning" ELSE "Night", created_by |-> 1] :
        s \in ScheduleIds, hh \in {8, 22, 24}}

Instants == {AddMinutes(T0, 60 * hh) : hh \in {0, 8, 22, 24, 32}}

Repo_create_shift(ns, fault) ==
    IF adapter = "mem" THEN Mem_create_shift(shifts, ns) ELSE Pg_create_shift(shifts, ns, fault)

\* what list_shifts can return: [err, out], out the listed shifts with their ids
Repo_list_shifts(schedule_id, from, to, fault) ==
    IF adapter = "mem"
    THEN {[err |-> "ok", out |-> [i \in DOMAIN f |-> [id |-> f[i], shift |-> shifts[f[i]]]]] :
             f \in Mem_list_shifts(schedule_id, from, to)}
    ELSE Pg_list_shifts(schedule_id, from, to, fault)

repo_create_shift(ns, fault) ==
    LET r == Repo_create_shift(ns, fault) IN
    /\ r.err = "ok" => r.id # None
    /\ shifts' = r.shifts
    /\ UNCHANGED <<users, schedules, members, comments, templates, clock, adapter, pg_call,
                   member_order, tasks>>

repo_list_shifts(schedule_id, from, to, fault) ==
    /\ Repo_list_shifts(schedule_id, from, to, fault) # {}
    /\ UNCHANGED vars

repo_list_schedule_members(schedule_id, fault) ==
    /\ Repo_list_schedule_members(schedule_id, fault) # {}
    /\ UNCHANGED vars

InitRepo ==
    InitStore /\ adapter \in {"mem", "pg"} /\ pg_call = NoCall /\ member_order = [s \in ScheduleIds |-> <<>>] /\ InitTasks

NextRepo ==
    \/ \E nu \in NewUsers, fault \in BOOLEAN : repo_create_user(nu, fault)
    \/ \E ns \in NewSchedules, now \in Nows : mem_create_schedule(ns, now)
    \/ \E ns \in NewSchedules, now \in Nows, fault \in BOOLEAN : pg_create_schedule_insert(ns, now, fault)
    \/ \E fault \in BOOLEAN : pg_create_schedule_member(fault)
    \/ \E s \in ScheduleIds, u \in UserIds, role \in ScheduleRole, fault \in BOOLEAN :
          repo_add_member(s, u, role, fault)
    \/ \E s \in ScheduleIds, u \in UserIds, role \in ScheduleRole, fault \in BOOLEAN :
          repo_set_member_role(s, u, role, fault)
    \/ \E s \in ScheduleIds, fault \in BOOLEAN : repo_list_schedule_members(s, fault)

SpecRepo == InitRepo /\ [][NextRepo]_vars

\* the shift operations of the port, on either adapter
NextShiftRepo ==
    \/ \E ns \in NewShifts, fault \in BOOLEAN : repo_create_shift(ns, fault)
    \/ \E s \in ScheduleIds, from, to \in Instants, fault \in BOOLEAN :
          repo_list_shifts(s, from, to, fault)

SpecShiftRepo == InitRepo /\ [][NextShiftRepo]_vars

\* ------------------------------------------- MemRepo, statement by statement
\* Tasks call MemRepo concurrently.  A call takes its guard on MemRepo.state, runs its
\* statements one step each, and drops the guard when it returns.
\* RwLock::read returns when no task holds the write guard
CanRead(p) == \A q \in Procs \ {p} : lock[q] # "write"

\* RwLock::write returns when no task holds a guard
CanWrite_shared(p) == \A q \in Procs \ {p} : lock[q] # "write"
CanWrite(p) == \A q \in Procs \ {p} : lock[q] = "none"

\* let s = self.state.read().unwrap()
read_lock(p, call) ==
    /\ pc[p].at = "idle"
    /\ CanRead(p)
    /\ lock' = [lock EXCEPT ![p] = "read"]
    /\ pc' = [pc EXCEPT ![p] = [call EXCEPT !.at = "locked"]]
    /\ UNCHANGED <<users, schedules, members, shifts, comments, templates, clock, adapter, pg_call,
                   member_order>>

\* let mut s = self.state.write().unwrap()
write_lock(p, call) ==
    /\ pc[p].at = "idle"
    /\ CanWrite(p)
    /\ lock' = [lock EXCEPT ![p] = "write"]
    /\ pc' = [pc EXCEPT ![p] = [call EXCEPT !.at = "locked"]]
    /\ UNCHANGED <<users, schedules, members, shifts, comments, templates, clock, adapter, pg_call,
                   member_order>>

\* a statement of task p's call that changes no map: the call goes from `at` to `to`
Goes(p, op, at, to) ==
    /\ pc[p].op = op
    /\ pc[p].at = at
    /\ pc' = [pc EXCEPT ![p].at = to]
    /\ UNCHANGED <<lock, adapter, pg_call, member_order, shifts, comments, templates, clock>>

\* create_user: if s.users.values().any(|(u, _)| u.email == nu.email) { return Err(Conflict) }
create_user_check(p) ==
    /\ Goes(p, "create_user", "locked",
            IF \E id \in DOMAIN users : users[id].email = pc[p].email THEN "return" ELSE "checked")
    /\ UNCHANGED <<users, schedules, members>>

\* create_user: s.users.insert(id, (user.clone(), nu.password_hash))
create_user_insert(p) ==
    LET id == NewId(UserIds, UsedUserIds) IN
    /\ id # None
    /\ Goes(p, "create_user", "checked", "return")
    /\ users' = Insert(users, id, [email |-> pc[p].email,
                                   password_hash |-> hash_password(Repeat("p", MinPasswordLen), "s1"),
                                   is_superadmin |-> FALSE])
    /\ UNCHANGED <<schedules, members>>

\* create_schedule: s.schedules.insert(id, schedule.clone())
create_schedule_first(p) ==
    LET id == NewId(ScheduleIds, UsedScheduleIds) IN
    /\ id # None
    /\ pc[p].op = "create_schedule"
    /\ pc[p].at = "locked"
    /\ schedules' = Insert(schedules, id, [name |-> <<"n">>, created_by |-> pc[p].user_id,
                                           created_at |-> clock])
    /\ pc' = [pc EXCEPT ![p].at = "half", ![p].schedule_id = id]
    /\ UNCHANGED <<users, members, shifts, comments, templates, clock, adapter, pg_call,
                   member_order, lock>>

\* create_schedule: s.members.insert((id, ns.created_by), ScheduleRole::Admin)
create_schedule_second(p) ==
    /\ Goes(p, "create_schedule", "half", "return")
    /\ members' = Insert(members, <<pc[p].schedule_id, pc[p].user_id>>, Admin)
    /\ UNCHANGED <<users, schedules>>

\* add_member: if s.members.contains_key(&key) { return Err(Conflict) }
add_member_check(p) ==
    /\ Goes(p, "add_member", "locked",
            IF <<pc[p].schedule_id, pc[p].user_id>> \in DOMAIN members THEN "return" ELSE "checked")
    /\ UNCHANGED <<users, schedules, members>>

\* set_member_role: if !s.members.contains_key(&key) { return Err(NotFound) }
set_member_role_check(p) ==
    /\ Goes(p, "set_member_role", "locked",
            IF <<pc[p].schedule_id, pc[p].user_id>> \notin DOMAIN members THEN "return" ELSE "checked")
    /\ UNCHANGED <<users, schedules, members>>

\* add_member, set_member_role: s.members.insert(key, role)
member_insert(p) ==
    /\ pc[p].op \in {"add_member", "set_member_role"}
    /\ Goes(p, pc[p].op, "checked", "return")
    /\ members' = Insert(members, <<pc[p].schedule_id, pc[p].user_id>>, pc[p].role)
    /\ UNCHANGED <<users, schedules>>

\* find_user_by_email, list_schedule_members: the body under the read guard
read_body(p) ==
    /\ pc[p].op \in {"find_user_by_email", "list_schedule_members"}
    /\ Goes(p, pc[p].op, "locked", "return")
    /\ UNCHANGED <<users, schedules, members>>

\* the call returns and its guard is dropped
unlock(p) ==
    /\ pc[p].at = "return"
    /\ lock' = [lock EXCEPT ![p] = "none"]
    /\ pc' = [pc EXCEPT ![p] = Idle]
    /\ UNCHANGED <<users, schedules, members, shifts, comments, templates, clock, adapter, pg_call,
                   member_order>>

\* the calls the tasks make
ReadCalls ==
    {[Idle EXCEPT !.op = "find_user_by_email", !.email = e] : e \in {<<"a">>, <<"b">>}}
        \cup {[Idle EXCEPT !.op = "list_schedule_members", !.schedule_id = 1]}

WriteCalls ==
    {[Idle EXCEPT !.op = "create_user", !.email = e] : e \in {<<"a">>, <<"b">>}}
        \cup {[Idle EXCEPT !.op = "create_schedule", !.user_id = 1]}
        \cup {[Idle EXCEPT !.op = "add_member", !.schedule_id = 1, !.user_id = u, !.role = User] :
                 u \in UserIds}
        \cup {[Idle EXCEPT !.op = "set_member_role", !.schedule_id = 1, !.user_id = 2, !.role = Admin]}

NextLock ==
    \E p \in Procs :
        \/ \E call \in ReadCalls : read_lock(p, call)
        \/ \E call \in WriteCalls : write_lock(p, call)
        \/ create_user_check(p)
        \/ create_user_insert(p)
        \/ create_schedule_first(p)
        \/ create_schedule_second(p)
        \/ add_member_check(p)
        \/ set_member_role_check(p)
        \/ member_insert(p)
        \/ read_body(p)
        \/ unlock(p)

SpecLock == Init /\ [][NextLock]_vars

\* C1: whenever no create_schedule call stands between its two statements --
\* also after a call that returned an error -- every stored schedule has the
\* membership row of its created_by user, on MemRepo and on PgRepo.
C1_ScheduleHasCreatorMembership ==
    pg_call.at # "inserted" =>
        \A s \in DOMAIN schedules : IsMember(s, schedules[s].created_by)

\* create_schedule returns Ok with schedule s in this step
ReturnedOk(s) ==
    \/ adapter = "mem" /\ s \notin DOMAIN schedules /\ s \in DOMAIN schedules'
    \/ adapter = "pg" /\ pg_call.at = "inserted" /\ pg_call.id = s /\ pg_call'.at = "ok"

\* C8: when create_schedule returns Ok with a schedule s owned by u, the
\* membership table holds exactly one row for s, (s, u) with the Admin role, and
\* list_schedules_for_user(u), called next, returns a list that has s with Admin.
C8_CreatorIsOnlyMember ==
    [][\A s \in ScheduleIds, u \in UserIds :
          ReturnedOk(s) /\ schedules'[s].created_by = u =>
             /\ {k \in DOMAIN members' : k[1] = s} = {<<s, u>>}
             /\ members'[<<s, u>>] = StoredRole(Admin)
             /\ (Repo_list_schedules_for_user(u, FALSE) # {})'
             /\ (\A r \in Repo_list_schedules_for_user(u, FALSE) :
                    /\ r.err = "ok"
                    /\ \E i \in DOMAIN r.out : r.out[i] = [schedule |-> s, role |-> Admin])'
      ]_vars

\* C8 witness: a second schedule has been created, by a user who was already a
\* member of the first; its only row is its creator's, with the Admin role
C8_Witness ==
    \E s, s2 \in DOMAIN schedules, u \in UserIds :
       /\ s # s2 /\ IsMember(s2, u)
       /\ schedules[s].created_by = u
       /\ {k \in DOMAIN members : k[1] = s} = {<<s, u>>}
       /\ members[<<s, u>>] = StoredRole(Admin)
       /\ adapter = "pg" => pg_call.at = "ok" /\ pg_call.id = s

\* C9: add_member for a pair that has a row fails -- with Conflict whenever the
\* statement reaches the table -- and leaves the membership table as it was, the
\* stored role included.  (members maps a pair to one role: a pair has one row.)
C9_DuplicateMemberConflict ==
    \A k \in DOMAIN members, role \in ScheduleRole, fault \in BOOLEAN :
       LET r == Repo_add_member(k[1], k[2], role, fault) IN
       /\ r.members = members
       /\ r.err # "ok"
       /\ ~fault => r.err = "Conflict"

\* C9 witness: a pair is stored with role User and an add_member for it with role
\* Admin is a Conflict
C9_Witness ==
    \E k \in DOMAIN members :
       /\ members[k] = StoredRole(User)
       /\ Repo_add_member(k[1], k[2], Admin, FALSE).err = "Conflict"

\* C10: create_user with a stored email fails -- with Conflict whenever the
\* statement reaches the table -- and leaves the user store as it was; and no two
\* stored users have the same email, however the calls interleave.
C10_DuplicateEmailConflict ==
    /\ \A nu \in NewUsers, fault \in BOOLEAN :
          (\E id \in DOMAIN users : users[id].email = nu.email) =>
             LET r == Repo_create_user(nu, fault) IN
             /\ r.users = users
             /\ r.err # "ok"
             /\ ~fault => r.err = "Conflict"
    /\ \A u, v \in DOMAIN users : u # v => users[u].email # users[v].email

\* C10 witness: two users are stored, and a create_user with the email of one of
\* them but another hash and flag is a Conflict
C10_Witness ==
    /\ Cardinality(DOMAIN users) = 2
    /\ \E nu \in NewUsers, id \in DOMAIN users :
          /\ users[id].email = nu.email
          /\ users[id].password_hash # nu.password_hash
          /\ users[id].is_superadmin # nu.is_superadmin
          /\ Repo_create_user(nu, FALSE).err = "Conflict"

\* ------------------------------------------------ properties: templates
\* the minutes from instant a to instant b
Minutes(a, b) == (b.d - a.d) * MinutesPerDay + (b.m - a.m)

\* the shift sh is the one the overnight rule gives slot in the week starting on week_day
OvernightRule(slot, week_day, sh) ==
    LET day == week_day + slot.dow
        start == ParseTime(slot.start).t
        end == ParseTime(slot.end).t
    IN /\ sh.starts_at = [d |-> day, m |-> start]
       /\ sh.ends_at = [d |-> IF end > start THEN day ELSE day + 1, m |-> end]
       /\ 0 < Minutes(sh.starts_at, sh.ends_at)
       /\ Minutes(sh.starts_at, sh.ends_at) <= MinutesPerDay
       /\ (start = end => Minutes(sh.starts_at, sh.ends_at) = MinutesPerDay)
       /\ (slot = SatNightSlot /\ week_day = ParseDate(Jan1).day
              => /\ sh.starts_at = AndTime(DaysFromCivil(2024, 1, 6), 22 * 60)
                 /\ sh.ends_at = AndTime(DaysFromCivil(2024, 1, 7), 6 * 60))

\* C11: in every reachable store and for every request, the shifts a successful
\* apply_template returns follow the overnight rule slot by slot -- starts_at is
\* week_start + dow at the start time, ends_at is the same day at the end time when
\* end > start and the next day otherwise, so 0 < ends_at - starts_at <= 24h, with
\* exactly 24h for equal times (dow 5, 22:00-06:00 in the week of 2024-01-01 gives
\* 2024-01-06T22:00Z to 2024-01-07T06:00Z) -- and every shift any apply_template
\* inserts, failed calls included, lasts more than 0 and at most 24 hours
C11_OvernightRule ==
    \A h \in Headers, s \in ScheduleIds, t \in TemplateIds, w \in TemplateWeekStarts :
        \A o \in apply_template(h, s, t, [week_start |-> w]) :
            /\ \A id \in DOMAIN o.st.shifts \ DOMAIN shifts :
                  /\ 0 < Minutes(o.st.shifts[id].starts_at, o.st.shifts[id].ends_at)
                  /\ Minutes(o.st.shifts[id].starts_at, o.st.shifts[id].ends_at) <= MinutesPerDay
            /\ o.err = "ok" =>
                  LET slots == templates[t].definition.slots IN
                  /\ Len(o.out) = Len(slots)
                  /\ \A i \in DOMAIN slots :
                        OvernightRule(slots[i], ParseDate(w).day, o.st.shifts[o.out[i]])

\* the spec's example has been applied: the Saturday night shift that ends on Sunday
\* is stored, next to a shift that ends on the day it starts
C11_Witness ==
    \E t \in DOMAIN templates, a, b \in DOMAIN shifts :
        /\ templates[t].definition.slots = <<SatNightSlot, DaySlot>>
        /\ shifts[a].starts_at = AndTime(DaysFromCivil(2024, 1, 6), 22 * 60)
        /\ shifts[a].ends_at = AndTime(DaysFromCivil(2024, 1, 7), 6 * 60)
        /\ shifts[b].starts_at.d = shifts[b].ends_at.d
        /\ Before(shifts[b].starts_at, shifts[b].ends_at)

\* the apply_template requests that get as far as the slots of template t
ReachesSlots(h, s, t, w) ==
    /\ from_headers(h).err = "ok"
    /\ require_admin_or_superadmin(from_headers(h), s) = "ok"
    /\ t \in DOMAIN templates
    /\ templates[t].schedule_id = s
    /\ ParseDate(w).ok
    /\ templates[t].definition.shape_ok

\* the positions of the slots whose dow is outside 0..6
BadDowAt(slots) == {i \in DOMAIN slots : slots[i].dow < 0 \/ slots[i].dow > MaxDow}

SlotValid(slot, week_day) ==
    /\ 0 <= slot.dow /\ slot.dow <= MaxDow
    /\ ParseTime(slot.start).ok
    /\ ParseTime(slot.end).ok
    /\ week_day + slot.dow <= NaiveDateMax

\* the position of the first invalid slot, if there is one
FirstInvalid(slots, week_day) ==
    {k \in DOMAIN slots : /\ ~SlotValid(slots[k], week_day)
                          /\ \A j \in 1..(k - 1) : SlotValid(slots[j], week_day)}

\* the shifts of `after` that `before` lacks are those of slots[1..n], one each
InsertedFor(slots, n, week_day, s, before, after) ==
    /\ \A id \in DOMAIN before : id \in DOMAIN after /\ after[id] = before[id]
    /\ \E f \in Perms(DOMAIN after \ DOMAIN before) :
          /\ Len(f) = n
          /\ \A i \in 1..n : /\ OvernightRule(slots[i], week_day, after[f[i]])
                             /\ after[f[i]].period = slots[i].period
                             /\ after[f[i]].schedule_id = s

\* C13: when slot k is the first invalid slot of the applied template (dow out of
\* range, malformed start or end, or week_start + dow not representable), the call
\* returns BadRequest and the store has gained exactly the shifts of the slots before k
C13_FailurePolicy ==
    \A h \in Headers, s \in ScheduleIds, t \in TemplateIds, w \in TemplateWeekStarts :
        ReachesSlots(h, s, t, w) =>
            \A k \in FirstInvalid(templates[t].definition.slots, ParseDate(w).day) :
                \A o \in apply_template(h, s, t, [week_start |-> w]) :
                    /\ o.err = "BadRequest"
                    /\ InsertedFor(templates[t].definition.slots, k - 1, ParseDate(w).day, s,
                                   shifts, o.st.shifts)

\* C14: a slot is accepted exactly when its dow is in 0..6, its start and end parse as
\* HH:MM and week_start + dow is representable: a template of valid slots is applied
\* in full, and a template with an invalid slot gets BadRequest, nothing else
C14_SlotValidation ==
    \A h \in Headers, s \in ScheduleIds, t \in TemplateIds, w \in TemplateWeekStarts :
        ReachesSlots(h, s, t, w) =>
            LET slots == templates[t].definition.slots IN
            \A o \in apply_template(h, s, t, [week_start |-> w]) :
                IF \A i \in DOMAIN slots : SlotValid(slots[i], ParseDate(w).day)
                THEN o.err = "ok" /\ Cardinality(DOMAIN o.st.shifts \ DOMAIN shifts) = Len(slots)
                ELSE o.err = "BadRequest"

\* two shifts with the same schedule, start, end and period
SameShift(a, b) ==
    /\ a.schedule_id = b.schedule_id
    /\ a.starts_at = b.starts_at
    /\ a.ends_at = b.ends_at
    /\ a.period = b.period

\* C15: apply_template does not deduplicate: a successful application of a template
\* of n slots inserts n shifts under ids the store did not hold, whatever the store
\* holds already, and running the slot loop again for the same week on the store it
\* left inserts n more, the i-th equal to the i-th of the first run in schedule,
\* starts_at, ends_at and period and different from it in id -- 2n shifts in all
C15_NotIdempotent ==
    \A h \in Headers, s \in ScheduleIds, t \in TemplateIds, w \in TemplateWeekStarts :
        \A o \in apply_template(h, s, t, [week_start |-> w]) :
            o.err = "ok" =>
                LET slots == templates[t].definition.slots
                    n == Len(slots)
                    again == ApplySlots(slots, o.st.shifts, <<>>, s, ParseDate(w).day,
                                        from_headers(h).id)
                IN /\ Len(o.out) = n
                   /\ Cardinality({o.out[i] : i \in 1..n}) = n
                   /\ \A i \in 1..n : o.out[i] \notin DOMAIN shifts
                   /\ Cardinality(DOMAIN o.st.shifts) = Cardinality(DOMAIN shifts) + n
                   /\ ~again.full =>
                         /\ again.err = "ok"
                         /\ Len(again.created) = n
                         /\ Cardinality(DOMAIN again.shifts) = Cardinality(DOMAIN shifts) + 2 * n
                         /\ \A i \in 1..n :
                               /\ again.created[i] \notin DOMAIN o.st.shifts
                               /\ SameShift(again.shifts[again.created[i]], o.st.shifts[o.out[i]])

\* a template of two slots was applied twice for one week: the store holds four
\* shifts, two equal pairs
C15_Witness ==
    \E t \in DOMAIN templates, a, b, c, d \in DOMAIN shifts :
        /\ Len(templates[t].definition.slots) = 2
        /\ Cardinality({a, b, c, d}) = 4
        /\ SameShift(shifts[a], shifts[c])
        /\ SameShift(shifts[b], shifts[d])
        /\ ~SameShift(shifts[a], shifts[b])

\* C16: a successful apply_template on a template of n slots returns n shifts, all new
\* and all it inserted, in the order of the slots: the i-th has the i-th slot's period,
\* the schedule of the request path, the caller as created_by, starts on the date
\* week_start + dow_i, Monday or not, and is assigned to nobody; the stored shifts stay
C16_CreatesInSlotOrder ==
    \A h \in Headers, s \in ScheduleIds, t \in TemplateIds, w \in TemplateWeekStarts :
        \A o \in apply_template(h, s, t, [week_start |-> w]) :
            o.err = "ok" =>
                LET slots == templates[t].definition.slots
                    n == Len(slots)
                IN /\ Len(o.out) = n
                   /\ {o.out[i] : i \in 1..n} = DOMAIN o.st.shifts \ DOMAIN shifts
                   /\ Cardinality(DOMAIN o.st.shifts \ DOMAIN shifts) = n
                   /\ \A id \in DOMAIN shifts : o.st.shifts[id] = shifts[id]
                   /\ \A i \in 1..n :
                          LET sh == o.st.shifts[o.out[i]] IN
                          /\ sh.period = slots[i].period
                          /\ sh.schedule_id = s
                          /\ sh.created_by = h.token.sub
                          /\ sh.created_by \in DOMAIN users
                          /\ sh.starts_at.d = DaysFromCivil(w.y, w.m, w.d) + slots[i].dow
                          /\ sh.assigned_user_id = None

\* the Saturday-then-Wednesday template was applied for the week starting on Wednesday
\* 2024-01-03: the first shift inserted is the later one, on 2024-01-08, and the second
\* is on 2024-01-05; both are unassigned
C16_Witness ==
    \E t \in DOMAIN templates, a, b \in DOMAIN shifts :
        /\ templates[t].definition.slots = <<SatNightSlot, DaySlot>>
        /\ b = a + 1
        /\ shifts[a].starts_at.d = DaysFromCivil(2024, 1, 8)
        /\ shifts[a].period = SatNightSlot.period
        /\ shifts[b].starts_at.d = DaysFromCivil(2024, 1, 5)
        /\ shifts[b].period = DaySlot.period
        /\ shifts[a].created_by = shifts[b].created_by
        /\ shifts[a].assigned_user_id = None /\ shifts[b].assigned_user_id = None

\* ------------------------------------------------ properties: the shift port
\* the stored shifts of schedule_id that start in [from, to)
StartingIn(schedule_id, from, to) ==
    {id \in DOMAIN shifts : /\ shifts[id].schedule_id = schedule_id
                            /\ ~Before(shifts[id].starts_at, from)
                            /\ Before(shifts[id].starts_at, to)}

\* C17: on either adapter, for every schedule and every from <= to, list_shifts
\* succeeds (a failing statement aside) and returns each stored shift of the schedule
\* with from <= starts_at < to once, as stored, and no other, in non-decreasing
\* starts_at order; for from = to it returns nothing
C17_ListShifts ==
    \A s \in ScheduleIds, from, to \in Instants :
        ~Before(to, from) =>
            \A r \in Repo_list_shifts(s, from, to, FALSE) :
                /\ r.err = "ok"
                /\ {r.out[i].id : i \in DOMAIN r.out} = StartingIn(s, from, to)
                /\ Len(r.out) = Cardinality(StartingIn(s, from, to))
                /\ \A i \in DOMAIN r.out :
                      /\ r.out[i].shift.period \in Period
                      /\ IF adapter = "mem" THEN r.out[i].shift = shifts[r.out[i].id]
                         ELSE [r.out[i].shift EXCEPT !.period = Period_as_str(@)]
                                 = shifts[r.out[i].id]
                /\ \A i, j \in DOMAIN r.out :
                      i < j => ~Before(r.out[j].shift.starts_at, r.out[i].shift.starts_at)
                /\ from = to => r.out = <<>>

\* a listing of two shifts with different starts that leaves out a third shift of the
\* schedule, which starts exactly at `to`, and a shift of another schedule inside the range
C17_Witness ==
    \E s \in ScheduleIds, from, to \in Instants, a, b \in DOMAIN shifts :
        \E r \in Repo_list_shifts(s, from, to, FALSE) :
            /\ Len(r.out) = 2
            /\ Before(r.out[1].shift.starts_at, r.out[2].shift.starts_at)
            /\ r.out[1].id > r.out[2].id
            /\ shifts[a].schedule_id = s /\ shifts[a].starts_at = to
            /\ shifts[b].schedule_id # s
            /\ ~Before(shifts[b].starts_at, from) /\ Before(shifts[b].starts_at, to)

\* ------------------------------------------- properties: the two adapters
\* a list MemRepo would return, read off a PgRepo table: the role tags parsed
ParsedRoles(f) == [i \in DOMAIN f |-> [f[i] EXCEPT !.role = ScheduleRole_try_from(@)]]

\* C18: on every table PgRepo reaches, each port operation has in PgRepo the outcomes
\* it has in MemRepo on the same records (no statement failing): create_user, add_member
\* and set_member_role return the same Ok or error kind and leave the same rows, also
\* for schedules and users nobody stored, and list_schedules_for_user and
\* list_schedule_members can return the same lists, in the same order
C18_AdaptersEquivalent ==
    adapter = "pg" =>
        /\ \A nu \in NewUsers : Pg_create_user(nu, FALSE) = Mem_create_user(nu)
        /\ \A s \in ScheduleIds, u \in UserIds, role \in ScheduleRole :
              /\ Pg_add_member(s, u, role, FALSE).err = Mem_add_member(s, u, role).err
              /\ DOMAIN Pg_add_member(s, u, role, FALSE).members
                    = DOMAIN Mem_add_member(s, u, role).members
              /\ Pg_set_member_role(s, u, role, FALSE).err = Mem_set_member_role(s, u, role).err
              /\ DOMAIN Pg_set_member_role(s, u, role, FALSE).members
                    = DOMAIN Mem_set_member_role(s, u, role).members
        /\ \A u \in UserIds :
              {r.out : r \in Pg_list_schedules_for_user(u, FALSE)}
                  = {ParsedRoles(f) : f \in Mem_list_schedules_for_user(u)}
        /\ \A s \in ScheduleIds :
              {Pg_list_schedule_members(s, FALSE).out}
                  = {ParsedRoles(f) : f \in Mem_list_schedule_members(s)}

\* ------------------------------------------------ properties: MemRepo's lock
WriteOps == {"create_user", "create_schedule", "add_member", "set_member_role"}

\* C19: no two tasks hold the write guard at once and no task holds a read guard while
\* another holds the write guard; a call holds its guard from its first statement to
\* its return, so what a write call checked still holds when it inserts (no user with
\* the email, no row or a row for the key), a schedule lacks its creator's membership
\* only between the two inserts of a create_schedule that no other task can observe,
\* and no two users share an email
C19_ReaderWriterExclusion ==
    /\ \A p, q \in Procs : (p # q /\ lock[p] = "write") => lock[q] = "none"
    /\ \A p \in Procs :
          /\ pc[p].at = "idle" => lock[p] = "none"
          /\ (pc[p].at # "idle" /\ pc[p].op \in WriteOps) => lock[p] = "write"
          /\ (pc[p].at # "idle" /\ pc[p].op \notin WriteOps) => lock[p] = "read"
          /\ (pc[p].op = "create_user" /\ pc[p].at = "checked")
                => ~\E id \in DOMAIN users : users[id].email = pc[p].email
          /\ (pc[p].op = "add_member" /\ pc[p].at = "checked")
                => <<pc[p].schedule_id, pc[p].user_id>> \notin DOMAIN members
          /\ (pc[p].op = "set_member_role" /\ pc[p].at = "checked")
                => <<pc[p].schedule_id, pc[p].user_id>> \in DOMAIN members
    /\ \A s \in DOMAIN schedules :
          <<s, schedules[s].created_by>> \notin DOMAIN members =>
              \E p \in Procs : /\ pc[p].op = "create_schedule" /\ pc[p].at = "half"
                               /\ pc[p].schedule_id = s
                               /\ \A q \in Procs \ {p} : lock[q] = "none"
    /\ \A a, b \in DOMAIN users : users[a].email = users[b].email => a = b

\* after some writes, two tasks hold the read guard at the same time
C19_Witness ==
    /\ users # <<>>
    /\ members # <<>>
    /\ \E p, q \in Procs : p # q /\ lock[p] = "read" /\ lock[q] = "read"

\* ------------------------------------------------ properties: the caller
\* a validly signed token for subject u that carries the flag b
Signed(u, b) == [bearer |-> TRUE, token |-> issue_jwt(u, b)]

\* what each handler can answer to a request with header h
Answers(h, s, sh, t) ==
    <<me(h), list_schedules(h), create_schedule(h, [name |-> <<"n">>], clock),
      list_members(h, s), add_member(h, s, [email |-> <<"a">>, role |-> User]),
      set_member_role(h, s, 1, [role |-> User]), create_shift(h, s, NightShift),
      list_shifts(h, s, [from |-> Rfc3339(T0), to |-> Rfc3339(AddMinutes(T0, MinutesPerDay))]),
      assign_shift(h, sh, [assigned_user_id |-> None]), add_shift_comment(h, sh, [body |-> <<"hi">>]),
      create_template(h, s, [name |-> <<"n">>, definition |-> NightDefinition], clock),
      list_templates(h, s), apply_template(h, s, t, [week_start |-> Jan1])>>

\* C20: the caller from_headers yields is the stored user the token's subject names,
\* with the stored is_superadmin flag; every handler answers a validly signed token the
\* same whichever flag the token carries; and a validly signed token whose subject is
\* no stored user gets Unauthorized from every handler, the store unchanged
C20_IdentityFromStore ==
    /\ \A h \in Headers :
          from_headers(h).err = "ok" =>
              /\ h.bearer /\ h.token.valid
              /\ from_headers(h).id = h.token.sub
              /\ h.token.sub \in DOMAIN users
              /\ from_headers(h).is_superadmin = users[h.token.sub].is_superadmin
    /\ \A u \in UserIds \cup {MaxUsers + 1}, s \in ScheduleIds, sh \in ShiftIds, t \in TemplateIds :
          /\ Answers(Signed(u, TRUE), s, sh, t) = Answers(Signed(u, FALSE), s, sh, t)
          /\ u \notin DOMAIN users =>
                \A b \in BOOLEAN, i \in 1..13 :
                    \A o \in Answers(Signed(u, b), s, sh, t)[i] :
                        o.err = "Unauthorized" /\ o.st = St

\* a stored user who is neither superadmin nor member of a stored schedule is refused
\* its members with a token that says superadmin, a stored superadmin is served those of
\* a schedule it is no member of with a token that does not, and the token of a subject
\* that is not stored is refused
C20_Witness ==
    \E u, v \in DOMAIN users, s, s2 \in DOMAIN schedules :
        /\ ~users[u].is_superadmin
        /\ <<s, u>> \notin DOMAIN members
        /\ \A o \in list_members(Signed(u, TRUE), s) : o.err = "Forbidden"
        /\ users[v].is_superadmin
        /\ <<s2, v>> \notin DOMAIN members
        /\ \A o \in list_members(Signed(v, FALSE), s2) : o.err = "ok"
        /\ from_headers(Signed(MaxUsers + 1, TRUE)).err = "Unauthorized"

\* ---------------------------------------------------------------- C21
LoginRequests ==
    {[email |-> e, password |-> pw] : e \in RegisterEmails, pw \in Passwords \cup WrongPasswords}

\* the token carries user u's id and stored flag
TokenOf(token, u, flag) ==
    /\ decode_jwt(token).err = "ok"
    /\ decode_jwt(token).claims.sub = u
    /\ decode_jwt(token).claims.is_superadmin = flag

\* the stored users req's credentials belong to: same normalised email, and the
\* stored hash is a hash of req's password
Registered(req) ==
    {u \in DOMAIN users :
        /\ users[u].email = ToLowercase(Trim(req.email))
        /\ \E salt \in Salts : users[u].password_hash = hash_password(req.password, salt)}

\* login with an unregistered email or a wrong password is Unauthorized
LoginFailures ==
    \A req \in LoginRequests :
       Registered(req) = {} =>
          /\ login(req) # {}
          /\ \A o \in login(req) : o.err = "Unauthorized" /\ o.st = St

\* C21: a register request that succeeds returns a token decoding to the new
\* user's id and is_superadmin flag and stores the request's credentials under
\* that id; in every reachable store (so in the one a register leaves) a login
\* with stored credentials succeeds with a token decoding to that user's id and
\* flag; a login with an unregistered email or with a wrong password is
\* Unauthorized in both cases.
C21_RegisterLoginRoundTrip ==
    /\ \A req \in RegisterRequests, salt \in Salts :
          \A o \in register(req, salt) :
             o.err = "ok" =>
                LET id == CHOOSE u \in DOMAIN o.st.users : u \notin DOMAIN users IN
                /\ ToLowercase(Trim(req.email)) # <<>> /\ Len(req.password) >= MinPasswordLen
                /\ TokenOf(o.out, id, o.st.users[id].is_superadmin)
                /\ o.st.users[id].email = ToLowercase(Trim(req.email))
                /\ o.st.users[id].password_hash = hash_password(req.password, salt)
    /\ \A req \in LoginRequests :
          Registered(req) # {} =>
             /\ login(req) # {}
             /\ \A l \in login(req) :
                   /\ l.err = "ok" /\ l.st = St
                   /\ \E u \in Registered(req) : TokenOf(l.out, u, users[u].is_superadmin)
                   /\ Cardinality(Registered(req)) = 1
    /\ LoginFailures

\* C21 witness: a user registered as "a" is stored; login as "A " with the
\* password succeeds with that user's token, login with another password and
\* login with the unregistered "b" are both Unauthorized
C21_Witness ==
    \E u \in DOMAIN users :
       /\ users[u].email = <<"a">>
       /\ \A v \in DOMAIN users : users[v].email # <<"b">>
       /\ \E l \in login([email |-> <<"A", " ">>, password |-> Repeat("p", 8)]) :
             l.err = "ok" /\ TokenOf(l.out, u, users[u].is_superadmin)
       /\ \A l \in login([email |-> <<"a">>, password |-> Repeat("q", 8)]) : l.err = "Unauthorized"
       /\ \A l \in login([email |-> <<"b">>, password |-> Repeat("p", 8)]) : l.err = "Unauthorized"

\* ---------------------------------------------------------------- C22
\* an email after trim and lowercase
Norm(e) == ToLowercase(Trim(e))

\* no two stored users have emails that are equal after trim and lowercase
EmailsDistinct ==
    \A u, v \in DOMAIN users : u # v => Norm(users[u].email) # Norm(users[v].email)

\* the stored users whose email is a case or whitespace variant of e
Variants(e) == {u \in DOMAIN users : Norm(users[u].email) = Norm(e)}

\* login with a variant of a stored email and that user's password succeeds as
\* that user
VariantLogin ==
    \A req \in LoginRequests : \A u \in Variants(req.email) :
       (\E salt \in Salts : users[u].password_hash = hash_password(req.password, salt)) =>
          /\ login(req) # {}
          /\ \A l \in login(req) : l.err = "ok" /\ TokenOf(l.out, u, users[u].is_superadmin)

\* C22 as stated: stored emails are pairwise distinct after trim and lowercase,
\* every registration of a case or whitespace variant of a stored email fails
\* with Conflict, and login with a variant and the right password succeeds as the
\* original user.
C22_EmailsUnique ==
    /\ EmailsDistinct
    /\ \A req \in RegisterRequests, salt \in Salts :
          Variants(req.email) # {} =>
             /\ register(req, salt) # {}
             /\ \A o \in register(req, salt) : o.err = "Conflict" /\ o.st = St
    /\ VariantLogin

\* C22 amended: the same, where the registration of a variant carries a password
\* of at least MinPasswordLen bytes; with a shorter password the request fails
\* with BadRequest before the store is consulted. Either way nothing is stored.
C22_EmailsUniqueValidPassword ==
    /\ EmailsDistinct
    /\ \A req \in RegisterRequests, salt \in Salts :
          Variants(req.email) # {} =>
             /\ register(req, salt) # {}
             /\ \A o \in register(req, salt) :
                   /\ o.st = St
                   /\ o.err = IF Len(req.password) >= MinPasswordLen THEN "Conflict" ELSE "BadRequest"
    /\ VariantLogin

\* C22 witness: "a" is registered; registering "A " with a valid password is a
\* Conflict and logging in as "A " with the password succeeds as that user
C22_Witness ==
    \E u \in DOMAIN users :
       /\ users[u].email = <<"a">>
       /\ \E o \in register([email |-> <<"A", " ">>, password |-> Repeat("p", 8)], "s1") :
             o.err = "Conflict"
       /\ \E l \in login([email |-> <<"A", " ">>, password |-> Repeat("p", 8)]) :
             l.err = "ok" /\ decode_jwt(l.out).claims.sub = u

\* ---------------------------------------------------------------- C23
\* C23: set_member_role for a pair without a membership row fails -- with NotFound
\* whenever the statement reaches the table -- and leaves the membership table as
\* it was, so it never creates a row; for a pair that has a row it never returns
\* NotFound and, the statement reaching the table, returns Ok with that row's
\* role set to the given role and every other row and the set of pairs as they
\* were, also when the row already had that role.
C23_SetMemberRole ==
    \A s \in ScheduleIds, u \in UserIds, role \in ScheduleRole, fault \in BOOLEAN :
       LET r == Repo_set_member_role(s, u, role, fault) IN
       /\ DOMAIN r.members = DOMAIN members
       /\ \A k \in DOMAIN members : k # <<s, u>> => r.members[k] = members[k]
       /\ (r.err = "NotFound") => <<s, u>> \notin DOMAIN members
       /\ r.err # "ok" => r.members = members
       /\ ~fault =>
             /\ (r.err = "NotFound") <=> (<<s, u>> \notin DOMAIN members)
             /\ <<s, u>> \in DOMAIN members =>
                   r.err = "ok" /\ r.members[<<s, u>>] = StoredRole(role)

\* C23 witness: a stored pair has role User; setting it to Admin succeeds and
\* stores Admin, setting it to User succeeds and leaves the table as it is, and
\* for a pair with no row the call is NotFound
C23_Witness ==
    \E k \in DOMAIN members, s \in ScheduleIds, u \in UserIds :
       /\ members[k] = StoredRole(User)
       /\ Repo_set_member_role(k[1], k[2], Admin, FALSE).err = "ok"
       /\ Repo_set_member_role(k[1], k[2], Admin, FALSE).members[k] = StoredRole(Admin)
       /\ Repo_set_member_role(k[1], k[2], User, FALSE).err = "ok"
       /\ Repo_set_member_role(k[1], k[2], User, FALSE).members = members
       /\ <<s, u>> \notin DOMAIN members
       /\ Repo_set_member_role(s, u, Admin, FALSE).err = "NotFound"

\* ---------------------------------------------------------------- C24
\* the shift ids no stored shift has
UnknownShifts == ShiftPool \ DOMAIN shifts

\* C24: for a shift id that no stored shift has, assign_shift of the port is
\* NotFound on either adapter (the statement reaching the table) and leaves the
\* shifts as they were, and the assign_shift and add_shift_comment handlers
\* answer every authenticated caller -- superadmin, member or neither, whatever
\* the request names or the body holds -- with NotFound, nothing changed.
C24_UnknownShiftNotFound ==
    \A sh \in UnknownShifts :
       /\ \A target \in UserIds \cup {None} :
             /\ Mem_assign_shift(sh, target) = [err |-> "NotFound", shifts |-> shifts]
             /\ Pg_assign_shift(sh, target, FALSE) = [err |-> "NotFound", shifts |-> shifts]
             /\ Pg_assign_shift(sh, target, TRUE) = [err |-> "Internal", shifts |-> shifts]
       /\ \A h \in Headers :
             Caller(h) # None =>
                /\ \A req \in AssignRequests : assign_shift(h, sh, req) = {Fail("NotFound")}
                /\ \A b \in Bodies : add_shift_comment(h, sh, [body |-> b]) = {Fail("NotFound")}

\* C24 witness: a shift is stored and a non-superadmin who is member of no
\* schedule gets Forbidden on it, from both handlers, and NotFound on an id no
\* shift has
C24_Witness ==
    \E known \in DOMAIN shifts, sh \in UnknownShifts, h \in IssuedHeaders :
       /\ Caller(h) # None /\ ~IsSuperadmin(Caller(h))
       /\ \A k \in DOMAIN members : k[2] # Caller(h)
       /\ assign_shift(h, known, [assigned_user_id |-> None]) = {Fail("Forbidden")}
       /\ add_shift_comment(h, known, [body |-> <<"hi", " ">>]) = {Fail("Forbidden")}
       /\ assign_shift(h, sh, [assigned_user_id |-> None]) = {Fail("NotFound")}
       /\ add_shift_comment(h, sh, [body |-> <<"hi", " ">>]) = {Fail("NotFound")}

\* ---------------------------------------------------------------- C25
\* two accounts, one schedule, and every handler that writes, called on the stored
\* schedule and the stored shifts: members and roles, up to MaxFrameShifts shifts,
\* assignments, comments and a template
MaxFrameShifts == 2

FrameWrites ==
    \/ \E h \in IssuedHeaders, s \in DOMAIN schedules, e \in MemberEmails, role \in ScheduleRole :
          Do(add_member(h, s, [email |-> e, role |-> role]))
    \/ \E h \in IssuedHeaders, s \in DOMAIN schedules, u \in UserIds, role \in ScheduleRole :
          Do(set_member_role(h, s, u, [role |-> role]))
    \/ \E h \in IssuedHeaders, s \in DOMAIN schedules :
          Cardinality(DOMAIN shifts) < MaxFrameShifts /\ Do(create_shift(h, s, NightShift))
    \/ \E h \in IssuedHeaders, sh \in DOMAIN shifts, u \in UserIds \cup {None} :
          Do(assign_shift(h, sh, [assigned_user_id |-> u]))
    \/ \E h \in IssuedHeaders, sh \in DOMAIN shifts, b \in Bodies :
          Do(add_shift_comment(h, sh, [body |-> b]))
    \/ \E h \in IssuedHeaders, s \in DOMAIN schedules, now \in Nows :
          Do(create_template(h, s, [name |-> <<"n">>, definition |-> NightDefinition], now))

NextFrame == TemplateSetup \/ FrameWrites

SpecFrame == Init /\ [][NextFrame]_vars

\* every record of table t is in table t2 as it was
RecordsKept(t, t2) == \A k \in DOMAIN t : k \in DOMAIN t2 /\ t2[k] = t[k]

\* every membership is in ms, with its role unless its pair is in pairs
MembersKept(ms, pairs) ==
    \A k \in DOMAIN members : k \in DOMAIN ms /\ (k \notin pairs => ms[k] = members[k])

\* every shift is in shs, as it was but for the assignee of the shifts in ids
ShiftsKept(shs, ids) ==
    \A s \in DOMAIN shifts :
       /\ s \in DOMAIN shs
       /\ [shs[s] EXCEPT !.assigned_user_id = shifts[s].assigned_user_id] = shifts[s]
       /\ s \notin ids => shs[s] = shifts[s]

\* every comment is in cs, as it was and where it was
CommentsKept(cs) ==
    \A s \in DOMAIN comments :
       /\ s \in DOMAIN cs
       /\ Len(cs[s]) >= Len(comments[s])
       /\ SubSeq(cs[s], 1, Len(comments[s])) = comments[s]

\* every outcome keeps every stored record, but for the roles of pairs and the
\* assignees of ids
Frame(outcomes, pairs, ids) ==
    \A o \in outcomes :
       /\ RecordsKept(users, o.st.users)
       /\ RecordsKept(schedules, o.st.schedules)
       /\ RecordsKept(templates, o.st.templates)
       /\ MembersKept(o.st.members, pairs)
       /\ ShiftsKept(o.st.shifts, ids)
       /\ CommentsKept(o.st.comments)

\* the writes of the port keep every record of the table they write
PortFrame ==
    /\ \A nu \in NewUsers : RecordsKept(users, Mem_create_user(nu).users)
    /\ \A ns \in NewSchedules, now \in Nows :
          /\ RecordsKept(schedules, Mem_create_schedule(ns, now).schedules)
          /\ MembersKept(Mem_create_schedule(ns, now).members, {})
    /\ \A s \in ScheduleIds, u \in UserIds, role \in ScheduleRole :
          /\ MembersKept(Mem_add_member(s, u, role).members, {})
          /\ MembersKept(Mem_set_member_role(s, u, role).members, {<<s, u>>})
    /\ \A ns \in NewShifts : ShiftsKept(Mem_create_shift(shifts, ns).shifts, {})
    /\ \A sh \in ShiftPool, u \in UserIds \cup {None} :
          ShiftsKept(Mem_assign_shift(sh, u).shifts, {sh})
    /\ \A sh \in ShiftPool, u \in UserIds, b \in Bodies :
          CommentsKept(Mem_add_shift_comment([shift_id |-> sh, user_id |-> u, body |-> b]).comments)
    /\ \A s \in ScheduleIds, u \in UserIds, now \in Nows :
          RecordsKept(templates,
                      Mem_create_template([schedule_id |-> s, name |-> <<"n">>,
                                           definition |-> NightDefinition, created_by |-> u], now).templates)

\* C25: every write of the port and every outcome of every handler, for every
\* caller and request, keeps every stored user, schedule, membership, shift,
\* comment and template with every field as it was -- no record is removed --
\* except that set_member_role may change the role of the pair it addresses and
\* assign_shift the assignee of the shift it addresses.
C25_ImmutabilityFrame ==
    /\ PortFrame
    /\ \A req \in RegisterRequests, salt \in Salts : Frame(register(req, salt), {}, {})
    /\ \A req \in LoginRequests : Frame(login(req), {}, {})
    /\ \A h \in IssuedHeaders :
          /\ Frame(me(h), {}, {})
          /\ Frame(list_schedules(h), {}, {})
          /\ \A n \in Names, now \in Nows : Frame(create_schedule(h, [name |-> n], now), {}, {})
          /\ \A s \in ScheduleIds :
                /\ Frame(list_members(h, s), {}, {})
                /\ \A e \in MemberEmails, role \in ScheduleRole :
                      Frame(add_member(h, s, [email |-> e, role |-> role]), {}, {})
                /\ \A u \in UserIds, role \in ScheduleRole :
                      Frame(set_member_role(h, s, u, [role |-> role]), {<<s, u>>}, {})
                /\ \A req \in ShiftRequests : Frame(create_shift(h, s, req), {}, {})
                /\ \A q \in ShiftQueries : Frame(list_shifts(h, s, q), {}, {})
                /\ \A d \in Definitions, now \in Nows :
                      Frame(create_template(h, s, [name |-> <<"n">>, definition |-> d], now), {}, {})
                /\ Frame(list_templates(h, s), {}, {})
                /\ \A t \in TemplateIds, w \in WeekStarts :
                      Frame(apply_template(h, s, t, [week_start |-> w]), {}, {})
          /\ \A sh \in ShiftPool :
                /\ \A req \in AssignRequests : Frame(assign_shift(h, sh, req), {}, {sh})
                /\ \A b \in Bodies : Frame(add_shift_comment(h, sh, [body |-> b]), {}, {})

\* C25 witness: two users, two members of a schedule, two shifts of it of which
\* one is assigned, a comment and a template are stored; setting the role of one
\* member changes that role, and assigning the other shift changes that assignee
C25_Witness ==
    \E k \in DOMAIN members, sh, sh2 \in DOMAIN shifts, h \in IssuedHeaders :
       /\ Cardinality(DOMAIN users) = 2 /\ Cardinality(DOMAIN members) = 2
       /\ sh # sh2 /\ shifts[sh].assigned_user_id # None /\ shifts[sh2].assigned_user_id = None
       /\ shifts[sh].schedule_id = shifts[sh2].schedule_id
       /\ NumComments = 1 /\ DOMAIN templates # {}
       /\ members[k] = User
       /\ \E o \in set_member_role(h, k[1], k[2], [role |-> Admin]) :
             o.err = "ok" /\ o.st.members[k] = Admin
       /\ \E o \in assign_shift(h, sh2, [assigned_user_id |-> None]) :
             o.err = "ok" /\ o.st.shifts[sh2].assigned_user_id # None

\* ---------------------------------------------------------------- C26
\* C26: no step changes the is_superadmin flag of a stored user (or removes the
\* user): whatever is registered, added as a member or given a role, a
\* non-superadmin is never promoted and a superadmin never demoted.
C26_SuperadminFlagConstant ==
    [][\A u \in DOMAIN users :
          u \in DOMAIN users' /\ users'[u].is_superadmin = users[u].is_superadmin]_vars

\* C26 witness: a non-superadmin holds the Admin role on a schedule on which the
\* superadmin holds the User role
C26_Witness ==
    \E u, v \in DOMAIN users, s \in DOMAIN schedules :
       /\ IsSuperadmin(u) /\ ~IsSuperadmin(v)
       /\ HasRole(s, v, Admin) /\ HasRole(s, u, User)

\* ---------------------------------------------------------------- C27
\* the port with a clock that ticks: a superadmin and a plain user, schedules
\* created at up to MaxListClock + 1 instants, members and roles, on either adapter
MaxListClock == 1

ListUsers == {nu \in NewUsers : nu.is_superadmin <=> nu.email = <<"a">>}
ListNows == {t \in {clock, clock + 1} : t <= MaxListClock}

repo_list_schedules_for_user(user_id, fault) ==
    /\ Repo_list_schedules_for_user(user_id, fault) # {}
    /\ UNCHANGED vars

NextList ==
    \/ \E nu \in ListUsers : repo_create_user(nu, FALSE)
    \/ \E ns \in NewSchedules, now \in ListNows : mem_create_schedule(ns, now)
    \/ \E ns \in NewSchedules, now \in ListNows : pg_create_schedule_insert(ns, now, FALSE)
    \/ \E fault \in BOOLEAN : pg_create_schedule_member(fault)
    \/ \E s \in ScheduleIds, u \in UserIds, role \in ScheduleRole : repo_add_member(s, u, role, FALSE)
    \/ \E s \in ScheduleIds, u \in UserIds, role \in ScheduleRole : repo_set_member_role(s, u, role, FALSE)
    \/ \E u \in UserIds, fault \in BOOLEAN : repo_list_schedules_for_user(u, fault)

SpecList == InitRepo /\ [][NextList]_vars

\* the role a stored membership holds
RoleOf(k) == CHOOSE role \in ScheduleRole : StoredRole(role) = members[k]

\* C27: list_schedules_for_user(u), the statement not failing, returns Ok with a
\* list that has exactly one entry for each stored schedule u has a membership
\* row in, paired with the role that row holds now, and no entry for any other
\* schedule -- whether or not u is superadmin -- and in which no entry comes
\* before an entry of a schedule created later.
C27_ListSchedulesForUser ==
    \A u \in UserIds :
       /\ Repo_list_schedules_for_user(u, FALSE) # {}
       /\ \A r \in Repo_list_schedules_for_user(u, FALSE) :
             /\ r.err = "ok"
             /\ \A s \in DOMAIN schedules :
                   <<s, u>> \in DOMAIN members =>
                      /\ Cardinality({i \in DOMAIN r.out : r.out[i].schedule = s}) = 1
                      /\ \A i \in DOMAIN r.out :
                            r.out[i].schedule = s => r.out[i].role = RoleOf(<<s, u>>)
             /\ \A i \in DOMAIN r.out :
                   r.out[i].schedule \in DOMAIN schedules /\ <<r.out[i].schedule, u>> \in DOMAIN members
             /\ \A i, j \in DOMAIN r.out :
                   i < j => schedules[r.out[i].schedule].created_at
                               >= schedules[r.out[j].schedule].created_at

\* C27 witness: two schedules created at different instants; a superadmin with a
\* membership in one of them only is listed that one, and a user with different
\* roles on the two is listed both, the later schedule first
C27_Witness ==
    \E u, v \in DOMAIN users, s, s2 \in DOMAIN schedules :
       /\ schedules[s].created_at < schedules[s2].created_at
       /\ IsSuperadmin(u) /\ ~IsMember(s, u) /\ IsMember(s2, u)
       /\ IsMember(s, v) /\ IsMember(s2, v) /\ members[<<s, v>>] # members[<<s2, v>>]
       /\ \A r \in Repo_list_schedules_for_user(u, FALSE) :
             Len(r.out) = 1 /\ r.out[1].schedule = s2
       /\ \A r \in Repo_list_schedules_for_user(v, FALSE) :
             /\ Len(r.out) = 2 /\ r.out[1].schedule = s2 /\ r.out[2].schedule = s
             /\ r.out[1].role = RoleOf(<<s2, v>>) /\ r.out[2].role = RoleOf(<<s, v>>)

\* ---------------------------------------------------------------- C28
\* get_shift of the port: [err, out], out the shift if there is one
Repo_get_shift(shift_id, fault) ==
    IF adapter = "mem"
    THEN [err |-> "ok", out |-> IF Mem_get_shift(shift_id) = {} THEN <<>> ELSE <<shifts[shift_id]>>]
    ELSE Pg_get_shift(shift_id, fault)

repo_get_shift(shift_id, fault) ==
    /\ Repo_get_shift(shift_id, fault).err \in AppError \cup {"ok"}
    /\ UNCHANGED vars

\* The shift table is shared with whatever else writes to the database; its
\* period column is text, and src/ holds no constraint on it.  A row whose period
\* is not one of the four tags gets there by another client (a migration, an
\* older release, a manual fix), never by create_shift.
OtherClientRow ==
    [schedule_id |-> 1, starts_at |-> AddMinutes(T0, 60 * 8), ends_at |-> AddMinutes(T0, 60 * 16),
     period |-> "evening", assigned_user_id |-> None, created_by |-> 1]

pg_other_client_insert ==
    LET id == NewId(ShiftPool, DOMAIN shifts \cup DOMAIN comments) IN
    /\ adapter = "pg"
    /\ id # None
    /\ shifts' = Insert(shifts, id, OtherClientRow)
    /\ UNCHANGED <<users, schedules, members, comments, templates, clock, adapter, pg_call,
                   member_order, tasks>>

NextPgShift ==
    \/ \E ns \in NewShifts, fault \in BOOLEAN : repo_create_shift(ns, fault)
    \/ pg_other_client_insert
    \/ \E sh \in ShiftPool, fault \in BOOLEAN : repo_get_shift(sh, fault)
    \/ \E s \in ScheduleIds, from, to \in Instants, fault \in BOOLEAN :
          repo_list_shifts(s, from, to, fault)

SpecPgShift == InitRepo /\ [][NextPgShift]_vars

\* the stored shifts whose period text is none of morning, afternoon, night, sleep
UnknownPeriod == {sh \in DOMAIN shifts : adapter = "pg" /\ Period_try_from(shifts[sh].period) = NoPeriod}

\* list_shifts over a range that holds a shift with an unknown period fails with Internal
ListShiftsSurfaces ==
    \A sh \in UnknownPeriod, from, to \in Instants :
       (NotBefore(shifts[sh].starts_at, from) /\ Before(shifts[sh].starts_at, to)) =>
          /\ Pg_list_shifts(shifts[sh].schedule_id, from, to, FALSE) # {}
          /\ \A r \in Pg_list_shifts(shifts[sh].schedule_id, from, to, FALSE) : r.err = "Internal"

\* C28: every outcome of get_shift is Ok or one of the six error kinds, and for
\* a stored shift whose period text is not one of morning, afternoon, night,
\* sleep PgRepo::get_shift fails with Internal, as PgRepo::list_shifts does over
\* a range holding that shift; it does not return the shift with another period.
C28_NoErrorSwallowed ==
    /\ \A sh \in ShiftPool, fault \in BOOLEAN : Repo_get_shift(sh, fault).err \in AppError \cup {"ok"}
    /\ ListShiftsSurfaces
    /\ \A sh \in UnknownPeriod : Pg_get_shift(sh, FALSE).err = "Internal"

\* ---------------------------------------------------------------- C29
\* bodies that are empty or whitespace only
BlankBodies == {<<>>, <<" ">>, <<" ", " ">>}

\* the caller may comment on the shift: superadmin, Admin of its schedule, or a
\* member of it and the shift's assignee
MayComment(u, sh) ==
    \/ IsSuperadmin(u)
    \/ HasRole(shifts[sh].schedule_id, u, Admin)
    \/ IsMember(shifts[sh].schedule_id, u) /\ shifts[sh].assigned_user_id = u

\* C29: add_shift_comment with an empty or whitespace-only body never succeeds
\* and stores nothing; on a stored shift a caller who may comment gets BadRequest
\* for it and an authenticated caller who may not gets Forbidden, not BadRequest;
\* and every stored comment body is non-empty and equal to its trimmed form.
C29_BlankCommentRejected ==
    /\ \A h \in Headers, sh \in ShiftPool, b \in BlankBodies :
          /\ add_shift_comment(h, sh, [body |-> b]) # {}
          /\ \A o \in add_shift_comment(h, sh, [body |-> b]) :
                /\ o.err # "ok" /\ o.st = St
                /\ (Caller(h) # None /\ sh \in DOMAIN shifts) =>
                      o.err = IF MayComment(Caller(h), sh) THEN "BadRequest" ELSE "Forbidden"
    /\ \A sh \in DOMAIN comments : \A i \in DOMAIN comments[sh] :
          comments[sh][i].body # <<>> /\ comments[sh][i].body = Trim(comments[sh][i].body)

\* C29 witness: a comment sent as "hi " is stored as "hi"; a blank body is a
\* BadRequest for a caller who may comment on the shift and Forbidden for an
\* authenticated caller who may not
C29_Witness ==
    \E sh \in DOMAIN shifts, h, h2 \in IssuedHeaders :
       /\ sh \in DOMAIN comments /\ comments[sh] # <<>> /\ comments[sh][1].body = <<"hi">>
       /\ Caller(h) # None /\ MayComment(Caller(h), sh)
       /\ add_shift_comment(h, sh, [body |-> <<" ">>]) = {Fail("BadRequest")}
       /\ Caller(h2) # None /\ ~MayComment(Caller(h2), sh)
       /\ add_shift_comment(h2, sh, [body |-> <<" ">>]) = {Fail("Forbidden")}

\* ---------------------------------------------------------------- C30
\* register, store operation by store operation.  Tasks serve register requests
\* concurrently; count_users and create_user each hold MemRepo's lock for their
\* whole body and are one step each, and other tasks run between the two.

\* register up to count_users: the request is checked (a BadRequest returns at
\* once) and the task keeps the normalised email and the flag it computed
register_count_users(p, req) ==
    /\ pc[p].at = "idle"
    /\ pc' = IF register_email(req.email) = <<>> \/ Len(req.password) < MinPasswordLen
             THEN pc
             ELSE [pc EXCEPT ![p] = [Idle EXCEPT !.op = "register", !.at = "counted",
                                                  !.email = register_email(req.email),
                                                  !.is_superadmin = register_is_superadmin]]
    /\ UNCHANGED <<users, schedules, members, shifts, comments, templates, clock, adapter, pg_call,
                   member_order, lock>>

\* register from create_user on: the user is stored with the flag computed
\* before (or the call is a Conflict), and the request returns.  The hash is of
\* the one password the requests of this specification carry.
register_create_user(p, salt) ==
    LET r == Mem_create_user([email |-> pc[p].email,
                              password_hash |-> hash_password(Repeat("p", MinPasswordLen), salt),
                              is_superadmin |-> pc[p].is_superadmin]) IN
    /\ pc[p].op = "register"
    /\ pc[p].at = "counted"
    /\ r.err = "ok" => r.id # None
    /\ users' = r.users
    /\ pc' = [pc EXCEPT ![p] = Idle]
    /\ UNCHANGED <<schedules, members, shifts, comments, templates, clock, adapter, pg_call,
                   member_order, lock>>

NextRegister ==
    \E p \in Procs :
        \/ \E e \in RegisterEmails \cup MemberEmails :
              register_count_users(p, [email |-> e, password |-> Repeat("p", MinPasswordLen)])
        \/ \E salt \in Salts : register_create_user(p, salt)

SpecRegister == Init /\ [][NextRegister]_vars

\* C30: however concurrent register requests interleave, at most one stored
\* user has is_superadmin = TRUE.
C30_AtMostOneSuperadmin ==
    Cardinality({u \in DOMAIN users : IsSuperadmin(u)}) <= 1

\* ---------------------------------------------------------------- C31
\* The schedule-scoped writes, store operation by store operation.  A handler
\* awaits require_admin_or_superadmin (get_schedule_role, one store operation)
\* and then its write (another); other requests run between the two.
AdminCalls ==
    {[Idle EXCEPT !.op = op, !.caller = c, !.schedule_id = s, !.user_id = u, !.role = role] :
        op \in {"add_member", "set_member_role"}, c \in DOMAIN users, s \in DOMAIN schedules,
        u \in DOMAIN users, role \in ScheduleRole}
      \cup {[Idle EXCEPT !.op = "create_shift", !.caller = c, !.schedule_id = s] :
              c \in DOMAIN users, s \in DOMAIN schedules}

\* the handler up to and including require_admin_or_superadmin: Forbidden
\* returns at once, otherwise the request goes on to its write
handler_authorize(p, call) ==
    /\ pc[p].at = "idle"
    /\ pc' = IF require_admin_or_superadmin([err |-> "ok", id |-> call.caller,
                                             is_superadmin |-> users[call.caller].is_superadmin],
                                            call.schedule_id) = "ok"
             THEN [pc EXCEPT ![p] = [call EXCEPT !.at = "authorized"]]
             ELSE pc
    /\ UNCHANGED <<users, schedules, members, shifts, comments, templates, clock, adapter, pg_call,
                   member_order, lock>>

\* the store after the write of the request task p is in
WriteOf(p) ==
    CASE pc[p].op = "add_member" ->
            [St EXCEPT !.members = Mem_add_member(pc[p].schedule_id, pc[p].user_id, pc[p].role).members]
      [] pc[p].op = "set_member_role" ->
            [St EXCEPT !.members = Mem_set_member_role(pc[p].schedule_id, pc[p].user_id, pc[p].role).members]
      [] pc[p].op = "create_shift" ->
            [St EXCEPT !.shifts =
                Mem_create_shift(shifts, [schedule_id |-> pc[p].schedule_id,
                                          starts_at |-> NightShift.starts_at,
                                          ends_at |-> NightShift.ends_at,
                                          period |-> NightShift.period,
                                          created_by |-> pc[p].caller]).shifts]
      [] OTHER -> St

\* the handler's write, and its return
handler_write(p) ==
    /\ pc[p].at = "authorized"
    /\ pc[p].op = "create_shift" => RoomForShift
    /\ members' = WriteOf(p).members
    /\ shifts' = WriteOf(p).shifts
    /\ pc' = [pc EXCEPT ![p] = Idle]
    /\ UNCHANGED <<users, schedules, comments, templates, clock, adapter, pg_call, member_order, lock>>

NextAuthz ==
    \/ TemplateSetup
    \/ \E p \in Procs, call \in AdminCalls : handler_authorize(p, call)
    \/ \E p \in Procs : handler_write(p)

SpecAuthz == Init /\ [][NextAuthz]_vars

\* C31: whenever the write of an authorized request is about to take effect in
\* the store, its caller is superadmin or holds Admin on the schedule in that
\* state.
C31_AuthorizedAtWrite ==
    \A p \in Procs :
       (pc[p].at = "authorized" /\ WriteOf(p) # St) =>
          \/ IsSuperadmin(pc[p].caller)
          \/ HasRole(pc[p].schedule_id, pc[p].caller, Admin)

\* ---------------------------------------------------------------- C32
\* every outcome leaves every assigned shift assigned
StaysAssigned(outcomes) ==
    \A o \in outcomes : \A sh \in DOMAIN shifts :
       shifts[sh].assigned_user_id # None =>
          sh \in DOMAIN o.st.shifts /\ o.st.shifts[sh].assigned_user_id # None

\* C32: a successful assign_shift stores as assignee the user the request names,
\* or the caller when it names none, never None; and no outcome of assign_shift
\* or of any other handler that writes shifts leaves a shift unassigned that was
\* assigned.
C32_AssignWritesAssignee ==
    \A h \in Headers :
       /\ \A sh \in ShiftPool, req \in AssignRequests :
             /\ StaysAssigned(assign_shift(h, sh, req))
             /\ \A o \in assign_shift(h, sh, req) :
                   o.err = "ok" =>
                      /\ Caller(h) # None
                      /\ o.st.shifts[sh].assigned_user_id = Target(Caller(h), req)
                      /\ o.st.shifts[sh].assigned_user_id # None
       /\ \A sh \in ShiftPool, b \in Bodies : StaysAssigned(add_shift_comment(h, sh, [body |-> b]))
       /\ \A s \in ScheduleIds :
             /\ \A req \in ShiftRequests : StaysAssigned(create_shift(h, s, req))
             /\ \A t \in TemplateIds, w \in WeekStarts :
                   StaysAssigned(apply_template(h, s, t, [week_start |-> w]))

\* C32 witness: a shift is assigned to a user other than the caller; the caller's
\* request that names no one succeeds and makes the caller the assignee
C32_Witness ==
    \E sh \in DOMAIN shifts, h \in IssuedHeaders :
       /\ Caller(h) # None
       /\ shifts[sh].assigned_user_id \notin {None, Caller(h)}
       /\ \E o \in assign_shift(h, sh, [assigned_user_id |-> None]) :
             o.err = "ok" /\ o.st.shifts[sh].assigned_user_id = Caller(h)

\* ---------------------------------------------------------------- C33
\* the caller is superadmin or Admin of schedule s
AdminOf(u, s) == IsSuperadmin(u) \/ HasRole(s, u, Admin)

\* apply_template of a template of another schedule is Forbidden for every
\* authenticated caller, and a successful call expands a template of the path's
\* schedule into shifts of that schedule
OwnTemplateOnly(h, s, t, w) ==
    \A o \in apply_template(h, s, t, [week_start |-> w]) :
       /\ (t \in DOMAIN templates /\ templates[t].schedule_id # s) =>
             o.err = "Forbidden" /\ o.st = St
       /\ o.err = "ok" =>
             /\ t \in DOMAIN templates /\ templates[t].schedule_id = s
             /\ \A sh \in DOMAIN o.st.shifts \ DOMAIN shifts : o.st.shifts[sh].schedule_id = s

\* C33 as stated: for every authenticated caller, apply_template with a template
\* id that does not exist fails with NotFound, with a template of another
\* schedule it fails with Forbidden, and in both cases the store is unchanged.
C33_ForeignTemplate ==
    \A h \in Headers, s \in ScheduleIds, t \in TemplateIds, w \in WeekStarts :
       Caller(h) # None =>
          /\ OwnTemplateOnly(h, s, t, w)
          /\ t \notin DOMAIN templates =>
                \A o \in apply_template(h, s, t, [week_start |-> w]) :
                   o.err = "NotFound" /\ o.st = St

\* C33 amended: the same, where NotFound is what a superadmin or an Admin of the
\* path's schedule gets for a template id that does not exist; any other
\* authenticated caller gets Forbidden, the role being checked first.
C33_ForeignTemplateAuthorized ==
    \A h \in Headers, s \in ScheduleIds, t \in TemplateIds, w \in WeekStarts :
       Caller(h) # None =>
          /\ OwnTemplateOnly(h, s, t, w)
          /\ apply_template(h, s, t, [week_start |-> w]) # {}
          /\ t \notin DOMAIN templates =>
                \A o \in apply_template(h, s, t, [week_start |-> w]) :
                   /\ o.st = St
                   /\ o.err = IF AdminOf(Caller(h), s) THEN "NotFound" ELSE "Forbidden"

\* C33 witness: a template of one schedule is stored; a non-superadmin Admin of
\* another schedule and a superadmin both get Forbidden applying it there
C33_Witness ==
    \E t \in DOMAIN templates, s \in DOMAIN schedules, h, h2 \in IssuedHeaders :
       /\ templates[t].schedule_id # s
       /\ Caller(h) # None /\ ~IsSuperadmin(Caller(h)) /\ HasRole(s, Caller(h), Admin)
       /\ apply_template(h, s, t, [week_start |-> Jan1]) = {Fail("Forbidden")}
       /\ Caller(h2) # None /\ IsSuperadmin(Caller(h2))
       /\ apply_template(h2, s, t, [week_start |-> Jan1]) = {Fail("Forbidden")}

\* ---------------------------------------------------------------- C34
\* two accounts, up to MaxSchedules schedules, and the handlers that write shifts,
\* assignments, comments and templates, called on the stored schedules and shifts
TenantSetup ==
    \/ \E e \in {<<"a">>, <<"b">>}, salt \in Salts :
          Do(register([email |-> e, password |-> Repeat("p", MinPasswordLen)], salt))
    \/ \E h \in IssuedHeaders, now \in Nows : Do(create_schedule(h, [name |-> <<"n">>], now))

TenantWrites ==
    \/ \E h \in IssuedHeaders, s \in DOMAIN schedules :
          Cardinality(DOMAIN shifts) < MaxFrameShifts /\ Do(create_shift(h, s, NightShift))
    \/ \E h \in IssuedHeaders, sh \in DOMAIN shifts :
          Do(assign_shift(h, sh, [assigned_user_id |-> None]))
    \/ \E h \in IssuedHeaders, sh \in DOMAIN shifts :
          Do(add_shift_comment(h, sh, [body |-> <<"hi", " ">>]))
    \/ \E h \in IssuedHeaders, s \in DOMAIN schedules, now \in Nows :
          Do(create_template(h, s, [name |-> <<"n">>, definition |-> NightDefinition], now))

NextTenant == TenantSetup \/ TenantWrites

SpecTenant == Init /\ [][NextTenant]_vars

\* the records schedule s owns in store st: its memberships, its shifts (with
\* their assignees), the comments on them and its templates
Owned(st, s) ==
    [members |-> {<<k, st.members[k]>> : k \in {m \in DOMAIN st.members : m[1] = s}},
     shifts |-> {<<i, st.shifts[i]>> : i \in {j \in DOMAIN st.shifts : st.shifts[j].schedule_id = s}},
     comments |-> {<<i, st.comments[i]>> :
                     i \in {j \in DOMAIN st.comments \cap DOMAIN st.shifts :
                              st.shifts[j].schedule_id = s}},
     templates |-> {<<i, st.templates[i]>> :
                      i \in {j \in DOMAIN st.templates : st.templates[j].schedule_id = s}}]

\* no outcome changes a record owned by a schedule of the set
Untouched(outcomes, scheds) ==
    \A o \in outcomes : \A s \in scheds : Owned(o.st, s) = Owned(St, s)

\* every outcome is Forbidden and carries no data
Refused(outcomes) == \A o \in outcomes : o.err = "Forbidden" /\ o.out = None

\* the stored schedules caller u is an outsider of
Foreign(u) == {s \in DOMAIN schedules : ~IsSuperadmin(u) /\ ~IsMember(s, u)}

\* the schedule of a shift id (None: no such shift)
ScheduleOf(sh) == IF sh \in DOMAIN shifts THEN shifts[sh].schedule_id ELSE None

\* C34: no request of a caller who is not superadmin and has no membership in a
\* stored schedule S changes a membership, shift, assignee, comment or template
\* of S, and that caller's reads of S's members, shifts and templates are
\* Forbidden and carry no data; and no request on schedule A, or on a shift of
\* A, changes a record owned by another schedule, stored or not.
C34_TenantIsolation ==
    \A h \in IssuedHeaders :
       Caller(h) # None =>
          LET F == Foreign(Caller(h)) IN
          /\ Untouched(me(h), ScheduleIds)
          /\ Untouched(list_schedules(h), ScheduleIds)
          /\ \A n \in Names, now \in Nows : Untouched(create_schedule(h, [name |-> n], now), F)
          /\ \A s \in ScheduleIds :
                LET B == F \cup (ScheduleIds \ {s}) IN
                /\ Untouched(list_members(h, s), ScheduleIds)
                /\ Untouched(list_templates(h, s), ScheduleIds)
                /\ \A q \in ShiftQueries : Untouched(list_shifts(h, s, q), ScheduleIds)
                /\ \A e \in MemberEmails, role \in ScheduleRole :
                      Untouched(add_member(h, s, [email |-> e, role |-> role]), B)
                /\ \A u \in UserIds, role \in ScheduleRole :
                      Untouched(set_member_role(h, s, u, [role |-> role]), B)
                /\ \A req \in ShiftRequests : Untouched(create_shift(h, s, req), B)
                /\ \A d \in Definitions, now \in Nows :
                      Untouched(create_template(h, s, [name |-> <<"n">>, definition |-> d], now), B)
                /\ \A t \in TemplateIds, w \in WeekStarts :
                      Untouched(apply_template(h, s, t, [week_start |-> w]), B)
                /\ s \in F =>
                      /\ Refused(list_members(h, s))
                      /\ Refused(list_templates(h, s))
                      /\ \A q \in ShiftQueries : Refused(list_shifts(h, s, q))
          /\ \A sh \in ShiftPool :
                LET B == F \cup (ScheduleIds \ {ScheduleOf(sh)}) IN
                /\ \A req \in AssignRequests : Untouched(assign_shift(h, sh, req), B)
                /\ \A b \in Bodies : Untouched(add_shift_comment(h, sh, [body |-> b]), B)

\* C34 witness: a non-superadmin is Admin of one schedule and has no membership
\* in another, which holds a shift with an assignee and a comment, and a
\* template; the caller's comment on that shift and reading of its members are
\* Forbidden, and the caller's own schedule holds a shift too
C34_Witness ==
    \E h \in IssuedHeaders, s, s2 \in DOMAIN schedules, sh, sh2 \in DOMAIN shifts :
       /\ Caller(h) # None /\ s \in Foreign(Caller(h)) /\ HasRole(s2, Caller(h), Admin)
       /\ shifts[sh].schedule_id = s /\ shifts[sh].assigned_user_id # None
       /\ sh \in DOMAIN comments
       /\ \E t \in DOMAIN templates : templates[t].schedule_id = s
       /\ shifts[sh2].schedule_id = s2
       /\ add_shift_comment(h, sh, [body |-> <<"hi", " ">>]) = {Fail("Forbidden")}
       /\ list_members(h, s) = {Fail("Forbidden")}

\* ---------------------------------------------------------------- C35
\* C35: the assigned user of every stored shift is either unset or a stored
\* user who has a membership in the shift's schedule.
C35_AssigneeIsMember ==
    \A sh \in DOMAIN shifts :
       \/ shifts[sh].assigned_user_id = None
       \/ /\ shifts[sh].assigned_user_id \in DOMAIN users
          /\ IsMember(shifts[sh].schedule_id, shifts[sh].assigned_user_id)

\* ---------------------------------------------------------------- C36
\* C36: every membership, shift and template refers to a stored schedule, every
\* membership refers to a stored user, and every comment refers to a stored
\* shift (so a write on a schedule id that is not stored creates no record).
C36_ReferentialIntegrity ==
    /\ \A k \in DOMAIN members : k[1] \in DOMAIN schedules /\ k[2] \in DOMAIN users
    /\ \A sh \in DOMAIN shifts : shifts[sh].schedule_id \in DOMAIN schedules
    /\ \A t \in DOMAIN templates : templates[t].schedule_id \in DOMAIN schedules
    /\ \A c \in DOMAIN comments : c \in DOMAIN shifts

\* ---------------------------------------------------------------- C37
\* C37: every stored schedule has at least one member holding the Admin role.
C37_ScheduleHasAdmin ==
    \A s \in DOMAIN schedules : \E u \in UserIds : HasRole(s, u, Admin)

\* ---------------------------------------------------------------- C38
\* apply_template's loop over def.slots, one MemRepo::create_shift call for each slot
\* the shift ids the loops of the other tasks may still take
Reserved(p) == MaxSlots * Cardinality({q \in Procs \ {p} : pc[q].op = "apply_template"})

\* for slot in def.slots: the handler enters the loop with n slots to go
apply_template_start(p, n) ==
    /\ pc[p].at = "idle"
    /\ Cardinality(ShiftPool \ UsedShiftIds) >= n + Reserved(p)
    /\ pc' = [pc EXCEPT ![p] = [Idle EXCEPT !.op = "apply_template", !.at = "loop", !.slots = n,
                                            !.schedule_id = 1, !.user_id = 1]]
    /\ UNCHANGED <<users, schedules, members, shifts, comments, templates, clock, adapter, pg_call,
                   member_order, lock>>

\* the slot fails a check (dow, start, end, date): return Err(BadRequest)
slot_rejected(p) ==
    /\ pc[p].op = "apply_template" /\ pc[p].at = "loop" /\ pc[p].slots > 0
    /\ pc' = [pc EXCEPT ![p] = Idle]
    /\ UNCHANGED <<users, schedules, members, shifts, comments, templates, clock, adapter, pg_call,
                   member_order, lock>>

\* create_shift: let mut s = self.state.write().unwrap()
create_shift_lock(p) ==
    /\ pc[p].op = "apply_template" /\ pc[p].at = "loop" /\ pc[p].slots > 0
    /\ CanWrite(p)
    /\ lock' = [lock EXCEPT ![p] = "write"]
    /\ pc' = [pc EXCEPT ![p].at = "locked"]
    /\ UNCHANGED <<users, schedules, members, shifts, comments, templates, clock, adapter, pg_call,
                   member_order>>

\* create_shift: s.shifts.insert(id, shift.clone())
create_shift_insert(p) ==
    /\ pc[p].op = "apply_template" /\ pc[p].at = "locked"
    /\ shifts' = Mem_create_shift(shifts, [schedule_id |-> pc[p].schedule_id,
                                           starts_at |-> NightShift.starts_at,
                                           ends_at |-> NightShift.ends_at,
                                           period |-> NightShift.period,
                                           created_by |-> pc[p].user_id]).shifts
    /\ pc' = [pc EXCEPT ![p].at = "inserted"]
    /\ UNCHANGED <<users, schedules, members, comments, templates, clock, adapter, pg_call,
                   member_order, lock>>

\* create_shift returning without dropping its guard
create_shift_unlock_keeps_guard(p) ==
    /\ pc[p].op = "apply_template" /\ pc[p].at = "inserted"
    /\ pc' = [pc EXCEPT ![p].at = "loop", ![p].slots = @ - 1]
    /\ UNCHANGED <<users, schedules, members, shifts, comments, templates, clock, adapter, pg_call,
                   member_order, lock>>

\* create_shift returns and its guard is dropped; created.push(shift)
create_shift_unlock(p) ==
    /\ pc[p].op = "apply_template" /\ pc[p].at = "inserted"
    /\ lock' = [lock EXCEPT ![p] = "none"]
    /\ pc' = [pc EXCEPT ![p].at = "loop", ![p].slots = @ - 1]
    /\ UNCHANGED <<users, schedules, members, shifts, comments, templates, clock, adapter, pg_call,
                   member_order>>

\* the slot list is used up: Ok((StatusCode::CREATED, Json(created)))
apply_template_return(p) ==
    /\ pc[p].op = "apply_template" /\ pc[p].at = "loop" /\ pc[p].slots = 0
    /\ pc' = [pc EXCEPT ![p] = Idle]
    /\ UNCHANGED <<users, schedules, members, shifts, comments, templates, clock, adapter, pg_call,
                   member_order, lock>>

\* Uuid::new_v4 has an id left for the call
Fits(call) ==
    /\ call.op = "create_user" => NewId(UserIds, UsedUserIds) # None
    /\ call.op = "create_schedule" => NewId(ScheduleIds, UsedScheduleIds) # None

\* the requests are a finite set: they arrive while the clock is below MaxLiveClock
Arriving == clock < MaxLiveClock

\* time passes
live_tick ==
    /\ Arriving
    /\ clock' = clock + 1
    /\ UNCHANGED <<users, schedules, members, shifts, comments, templates, adapter, pg_call,
                   member_order, tasks>>

\* a task starts a call: it takes the guard, or enters apply_template's loop
Starts(p) ==
    \/ \E call \in ReadCalls : Arriving /\ read_lock(p, call)
    \/ \E call \in WriteCalls : Arriving /\ Fits(call) /\ write_lock(p, call)
    \/ \E n \in 0..MaxSlots : Arriving /\ apply_template_start(p, n)

\* the statements a task runs without waiting for anyone
Runs(p) ==
    \/ create_user_check(p)
    \/ create_user_insert(p)
    \/ create_schedule_first(p)
    \/ create_schedule_second(p)
    \/ add_member_check(p)
    \/ set_member_role_check(p)
    \/ member_insert(p)
    \/ read_body(p)
    \/ unlock(p)
    \/ create_shift_insert(p)
    \/ create_shift_unlock(p)
    \/ apply_template_return(p)

NextLive ==
    \/ live_tick
    \/ \E p \in Procs : Starts(p) \/ Runs(p) \/ create_shift_lock(p) \/ slot_rejected(p)

\* fair scheduling: a task that can run its next statement runs it, a task that
\* can take the write guard takes it, and time passes
FairLive ==
    /\ WF_vars(live_tick)
    /\ \A p \in Procs : WF_vars(Runs(p)) /\ WF_vars(create_shift_lock(p))

SpecLive == Init /\ [][NextLive]_vars /\ FairLive

\* a task holds a guard exactly while it is inside a MemRepo call
HoldsInsideCall == \A p \in Procs : lock[p] = "none" <=> pc[p].at \in {"idle", "loop"}

\* a guard is taken from "none" only, and a held guard only changes by being dropped
TakenOnce == \A p \in Procs : lock[p] # "none" => lock'[p] \in {lock[p], "none"}

NextTags ==
    \/ \E u \in UserIds, role \in ScheduleRole, fault \in BOOLEAN : repo_add_member(1, u, role, fault)
    \/ \E u \in UserIds, role \in ScheduleRole, fault \in BOOLEAN : repo_set_member_role(1, u, role, fault)
    \/ \E fault \in BOOLEAN : repo_list_schedule_members(1, fault)
    \/ \E ns \in NewShifts, p \in Period, fault \in BOOLEAN :
          /\ Cardinality(DOMAIN shifts) < MaxFrameShifts
          /\ repo_create_shift([ns EXCEPT !.period = p], fault)
    \/ \E sh \in ShiftPool, fault \in BOOLEAN : repo_get_shift(sh, fault)

SpecTags == InitRepo /\ [][NextTags]_vars

RoleTags == {"admin", "user"}
PeriodTags == {"morning", "afternoon", "night", "sleep"}

\* strings a column or a request can hold: the tags, the variants' names, other
\* casings, padded and empty strings, and other words
TagStrings ==
    RoleTags \cup PeriodTags \cup ScheduleRole \cup Period
        \cup {"ADMIN", "USER", "MORNING", "NIGHT", "nIGHT", "", " ", "admin ", " night", "superadmin",
              "evening", "None", "0"}

\* C39: try_from(as_str(r)) = r for both roles and try_from(as_str(p)) = p for the
\* four periods; as_str yields exactly admin/user and morning/afternoon/night/sleep;
\* try_from fails on every other string, other casings included; and every role and
\* period PgRepo has written is such a tag and reads back as the value written.
C39_TagsRoundTrip ==
    /\ \A r \in ScheduleRole : ScheduleRole_try_from(ScheduleRole_as_str(r)) = r
    /\ \A p \in Period : Period_try_from(Period_as_str(p)) = p
    /\ {ScheduleRole_as_str(r) : r \in ScheduleRole} = RoleTags
    /\ {Period_as_str(p) : p \in Period} = PeriodTags
    /\ \A s \in TagStrings \ RoleTags : ScheduleRole_try_from(s) = NoRole
    /\ \A s \in TagStrings \ PeriodTags : Period_try_from(s) = NoPeriod
    /\ \A s \in RoleTags : ScheduleRole_as_str(ScheduleRole_try_from(s)) = s
    /\ \A s \in PeriodTags : Period_as_str(Period_try_from(s)) = s
    /\ adapter = "pg" =>
          /\ \A k \in DOMAIN members :
                members[k] \in RoleTags /\ ScheduleRole_try_from(members[k]) \in ScheduleRole
          /\ \A sh \in DOMAIN shifts :
                /\ shifts[sh].period \in PeriodTags
                /\ Period_as_str(Pg_get_shift(sh, FALSE).out[1].period) = shifts[sh].period

\* C39 witness: PgRepo holds an admin row and a user row, which parse as Admin and
\* User, and a night and a sleep shift, which get_shift reads back as Night and Sleep
C39_Witness ==
    /\ adapter = "pg"
    /\ \E k1, k2 \in DOMAIN members :
          /\ members[k1] = "admin" /\ ScheduleRole_try_from(members[k1]) = Admin
          /\ members[k2] = "user" /\ ScheduleRole_try_from(members[k2]) = User
    /\ \E s1, s2 \in DOMAIN shifts :
          /\ shifts[s1].period = "night" /\ Pg_get_shift(s1, FALSE).out[1].period = "Night"
          /\ shifts[s2].period = "sleep" /\ Pg_get_shift(s2, FALSE).out[1].period = "Sleep"

====
